---- MODULE Spec2Model ----
(***************************************************************************)
(* marathon-cloud CLI: run-lifecycle orchestration and artifact retrieval. *)
(*                                                                         *)
(* The module models one invocation of the command-line client            *)
(* (Cli::run) for the three commands that contact the remote service:     *)
(*   run       TriggerTestRunInteractor::execute                          *)
(*   download  DownloadArtifactsInteractor::execute                       *)
(*   devices   GetDeviceCatalogInteractor::execute                        *)
(* together with fetch_artifact_list, download_artifacts and              *)
(* patch_allure_paths, which the first two share.  Every remote call is   *)
(* a step whose outcome (success or failure) the environment chooses.     *)
(***************************************************************************)
EXTENDS Integers, Sequences, FiniteSets, TLC

(***************************************************************************)
(* Bounds of the model.                                                    *)
(***************************************************************************)
MaxNodes == 2      \* artifact nodes below the root of the remote tree
MaxWorkers == 2    \* largest value num_cpus::get() takes
MaxPolls == 3      \* get_run calls of the wait loop before the run completes
MaxBundles == 1    \* bundles (application and library bundles) of a run
MaxIdLen == 5      \* characters of an artifact id

(***************************************************************************)
(* Constants of the program.                                               *)
(***************************************************************************)
MAX_TRIES == 3         \* `for _try in 1..=3`
RETRY_GUARD == 4       \* `if _try < 4`
POLL_INTERVAL == 5     \* `sleep(Duration::new(5, 0))`
EXIT_SUCCESS == 0      \* `::std::process::exit(0)`
EXIT_FAILURE == 1      \* `::std::process::exit(1)`
EXIT_PANIC == 101      \* exit status of a Rust process whose main thread panics

Commands == {"run", "download", "devices"}

\* values of TestRun.state carried by a record with a completion timestamp;
\* the field is a String, and "other" stands for any value but the three named
TerminalStates == {"passed", "failure", "error", "other"}

\* Option<bool> ignore_test_failures
OptionBool == {"None", "Some(false)", "Some(true)"}

(***************************************************************************)
(* The remote artifact tree.  Node 0 is the root (its id is the run id);   *)
(* nodes 1..n are the entries the service lists, each with the directory   *)
(* that contains it and its is_file flag.                                  *)
(***************************************************************************)
ROOT == 0

WellFormed(t) ==
    \A i \in 1..t.n :
        /\ t.parent[i] < i
        /\ (t.parent[i] # ROOT => ~t.is_file[t.parent[i]])

Trees ==
    { t \in UNION { [n : {n}, parent : [1..n -> 0..(n - 1)], is_file : [1..n -> BOOLEAN]]
                    : n \in 0..MaxNodes } : WellFormed(t) }

\* struct Artifact { id, name, is_file }
Artifact(t, i) == [id |-> i, is_file |-> t.is_file[i]]

\* the response of GET /v1/artifact/{id}: the entries directly under id
list_artifact(t, dir) ==
    SelectSeq([i \in 1..t.n |-> Artifact(t, i)], LAMBDA a : t.parent[a.id] = dir)

(***************************************************************************)
(* State.                                                                  *)
(***************************************************************************)
VARIABLES
    command,               \* the subcommand Cli::run dispatches
    wait,                  \* --wait
    output,                \* --output given (always for download)
    ignore_test_failures,  \* --ignore-test-failures, Option<bool>
    result_file,           \* --result-file given
    no_progress_bars,      \* --no-progress-bars
    glob,                  \* --glob of the download command
    num_cpus,              \* num_cpus::get()
    tree,                  \* the artifact tree the remote service holds
    remote,                \* the run's status record on the remote service
    pc,                    \* position of the invocation
    result,                \* what the interactor's execute returned
    error,                 \* the error carried by an Err result
    exit_code,             \* status passed to process::exit, -1 while running
    stat,                  \* the TestRun record the interactor holds
    responses,             \* history: the records get_run returned, in order
    get_run_calls,         \* history: get_run calls made
    sleep_log,             \* history: duration of each sleep of the run command's wait loop
    event,                 \* the event printed through the formatter
    file,                  \* content of the result file
    list,                  \* fetch_artifact_list: frontier of directory ids
    pending,               \* fetch_artifact_list: frontier entries not yet spawned
    list_inflight,         \* fetch_artifact_list: listing tasks in the buffer
    stats,                 \* fetch_artifact_list: nodes collected in this round
    artifacts,             \* the file list (accumulated, then returned)
    round,                 \* history: rounds of fetch_artifact_list started
    list_calls,            \* history: per node id, list_artifact calls made for it
    list_errors,           \* history: list_artifact calls that failed
    dl_queue,              \* download_artifacts: artifacts not yet spawned
    dl_inflight,           \* download_artifacts: download tasks in the buffer
    tries,                 \* history: per artifact, outcome of each download_artifact call
    incs,                  \* history: per artifact, progress_bar.inc(1) calls
    progress_bar,          \* download_artifacts: Option<ProgressBar>, its position
    written,               \* ids of the artifacts whose local file was written in full
    to_upload,             \* create_run: the uploads still to make, in order
    uploaded,              \* create_run: the uploads completed, in order
    upload_errors,         \* history: upload_to_s3 calls that failed
    create_requests,       \* history: POST /v2/run requests sent
    fn,                    \* the function a unit specification applies
    args,                  \* its arguments
    ret,                   \* its return value: <<>> before the call, <<v>> after
    trace                  \* the remote calls it has made, with their results

inputs == <<command, wait, output, ignore_test_failures, result_file,
            no_progress_bars, glob, num_cpus, tree>>
control == <<pc, result, error, exit_code>>
polling == <<remote, stat, responses, get_run_calls, sleep_log>>
reporting == <<event, file>>
crawl == <<list, pending, list_inflight, stats, artifacts, round, list_calls, list_errors>>
download == <<dl_queue, dl_inflight, tries, incs, progress_bar, written>>
submission == <<to_upload, uploaded, upload_errors, create_requests>>
unit == <<fn, args, ret, trace>>

\* the state of an invocation of the command-line client
invocation == <<inputs, control, polling, reporting, crawl, download, submission>>

vars == <<invocation, unit>>

NoStat == [some |-> FALSE, state |-> "", completed |-> FALSE]
NoEvent == [kind |-> "none", state |-> ""]
NoBar == [some |-> FALSE, pos |-> 0]
NoRun == [some |-> FALSE, state |-> "", completed |-> FALSE]
Running == [some |-> TRUE, state |-> "running", completed |-> FALSE]
Completed(s) == [some |-> TRUE, state |-> s, completed |-> TRUE]

\* Option<String> glob: absent, a pattern Glob::new rejects, or a pattern,
\* given by the set of artifact ids whose relative path it matches
NoGlob == [kind |-> "None", matches |-> {}]
InvalidGlob == [kind |-> "Invalid", matches |-> {}]
SomeGlob(m) == [kind |-> "Some", matches |-> m]
Globs == {NoGlob, InvalidGlob} \cup { SomeGlob(m) : m \in SUBSET (1..MaxNodes) }

\* TestRunStarted { id }
TestRunStarted == [kind |-> "started", state |-> ""]
\* variant of TestRunFinished: the completed branch writes the started event
TestRunFinishedAsStarted(s) == [kind |-> "started", state |-> ""]

\* TestRunFinished { id, state, report, passed, failed, ignored, billable_time }
TestRunFinished(s) == [kind |-> "finished", state |-> s.state]

(***************************************************************************)
(* Init: Cli::parse() has produced the command and its arguments.          *)
(***************************************************************************)
Init ==
    /\ command \in Commands
    /\ num_cpus \in 1..MaxWorkers
    /\ tree \in Trees
    /\ no_progress_bars \in BOOLEAN
    /\ \/ /\ command = "run"
          /\ wait \in BOOLEAN
          /\ output \in BOOLEAN
          /\ ignore_test_failures \in OptionBool
          /\ result_file \in BOOLEAN
          /\ glob = NoGlob
          /\ remote = NoRun
          /\ pc = "t_get_token"
       \/ /\ command = "download"
          /\ wait \in BOOLEAN
          /\ output = TRUE
          /\ ignore_test_failures = "None"
          /\ result_file = FALSE
          /\ glob \in Globs
          /\ remote \in {Running} \cup { Completed(s) : s \in TerminalStates }
          /\ pc = "d_get_run"
       \/ /\ command = "devices"
          /\ wait = FALSE
          /\ output = FALSE
          /\ ignore_test_failures = "None"
          /\ result_file = FALSE
          /\ glob = NoGlob
          /\ remote = NoRun
          /\ tree = [n |-> 0, parent |-> <<>>, is_file |-> <<>>]
          /\ num_cpus = 1
          /\ pc = "g_get_token"
    /\ result = "none"
    /\ error = "none"
    /\ exit_code = -1
    /\ stat = NoStat
    /\ responses = <<>>
    /\ get_run_calls = 0
    /\ sleep_log = <<>>
    /\ event = NoEvent
    /\ file = NoEvent
    /\ list = <<>>
    /\ pending = <<>>
    /\ list_inflight = {}
    /\ stats = <<>>
    /\ artifacts = <<>>
    /\ round = 0
    /\ list_calls = [i \in 0..tree.n |-> 0]
    /\ list_errors = 0
    /\ dl_queue = <<>>
    /\ dl_inflight = {}
    /\ tries = [i \in 1..tree.n |-> <<>>]
    /\ incs = [i \in 1..tree.n |-> 0]
    /\ progress_bar = NoBar
    /\ written = {}
    /\ to_upload = <<>>
    /\ uploaded = <<>>
    /\ upload_errors = 0
    /\ create_requests = 0
    /\ fn = "none"
    /\ args = <<>>
    /\ ret = <<>>
    /\ trace = <<>>

(***************************************************************************)
(* Returning from execute.                                                 *)
(***************************************************************************)
\* `?` on an Err: execute returns the error to Cli::run
Fail(e) ==
    /\ pc' = "returned"
    /\ result' = "Err"
    /\ error' = e
    /\ UNCHANGED exit_code

\* execute goes on to its next await point
Goto(l) ==
    /\ pc' = l
    /\ UNCHANGED <<result, error, exit_code>>

\* execute returns r
Return(r) ==
    /\ pc' = "returned"
    /\ result' = r
    /\ UNCHANGED <<error, exit_code>>

(***************************************************************************)
(* The remote service: a run that has not completed may complete at any    *)
(* moment, in any terminal state.  Only the interactor's polling reads the *)
(* record, so the step is taken while polling can still observe it.        *)
(***************************************************************************)
RemoteCompletes ==
    /\ pc \in {"t_poll", "t_sleep", "d_get_run", "d_loop", "d_sleep"}
    /\ remote.some /\ ~remote.completed
    /\ \E s \in TerminalStates : remote' = Completed(s)
    /\ UNCHANGED <<inputs, submission, unit, control, stat, responses, get_run_calls, sleep_log,
                   reporting, crawl, download>>

(***************************************************************************)
(* fetch_artifact_list                                                     *)
(***************************************************************************)
\* `let mut artifacts = Vec::new(); let mut list = vec![id]`, and the
\* first round's stream::iter(list.clone())
EnterFetch ==
    /\ artifacts' = <<>>
    /\ list' = <<ROOT>>
    /\ pending' = <<ROOT>>
    /\ stats' = <<>>
    /\ list_inflight' = {}
    /\ round' = 1
    /\ UNCHANGED <<list_calls, list_errors>>

\* variant of BufferHasRoom: the buffer takes every item at once
BufferUnbounded(inflight, n) == TRUE

\* buffer_unordered(n) pulls the next item of the stream, which spawns its
\* task, only while it holds fewer than n unfinished futures
BufferHasRoom(inflight, n) == Cardinality(inflight) < n

\* variant of Dirs: no directory is carried into the next frontier
DirsNone(nodes) == <<>>

\* variant of Dirs: every listed node, file or directory, enters the frontier
DirsWithFiles(nodes) == [i \in 1..Len(nodes) |-> nodes[i].id]

\* the partition of a round's nodes: files are accumulated ...
Files(nodes) == SelectSeq(nodes, LAMBDA f : f.is_file)
\* ... and directories become the next frontier
Dirs(nodes) ==
    LET ds == SelectSeq(nodes, LAMBDA f : ~f.is_file)
    IN  [i \in 1..Len(ds) |-> ds[i].id]

\* filter_artifact_list, for a glob that compiles
filter_artifact_list(as, g) ==
    IF g.kind = "Some" THEN SelectSeq(as, LAMBDA x : x.id \in g.matches) ELSE as

\* download_artifacts up to its stream: the optional progress bar and
\* stream::iter(artifacts.into_iter())
EnterDownload(as) ==
    /\ dl_queue' = as
    /\ dl_inflight' = {}
    /\ progress_bar' = IF no_progress_bars THEN NoBar ELSE [some |-> TRUE, pos |-> 0]
    /\ UNCHANGED <<tries, incs, written>>

\* a listing task is spawned for the next frontier entry
ListSpawn ==
    /\ pc = "fetch_artifact_list"
    /\ pending # <<>>
    /\ BufferHasRoom(list_inflight, num_cpus)
    /\ list_inflight' = list_inflight \cup {Head(pending)}
    /\ pending' = Tail(pending)
    /\ list_calls' = [list_calls EXCEPT ![Head(pending)] = @ + 1]
    /\ UNCHANGED <<inputs, submission, unit, control, polling, reporting, list, stats, artifacts, round,
                   list_errors, download>>

\* variant of ListComplete: a failed listing counts as an empty directory
ListCompleteLenient ==
    /\ pc = "fetch_artifact_list"
    /\ \E dir \in list_inflight, ok \in BOOLEAN :
        /\ stats' = IF ok THEN stats \o list_artifact(tree, dir) ELSE stats
        /\ list_errors' = IF ok THEN list_errors ELSE list_errors + 1
        /\ list_inflight' = list_inflight \ {dir}
    /\ UNCHANGED <<inputs, submission, unit, control, polling, reporting, list, pending, artifacts,
                   round, list_calls, download>>

\* a listing task ends and the stream yields its JoinHandle's result:
\* the listed nodes, or the JoinError of the task that panicked in unwrap()
ListComplete ==
    /\ pc = "fetch_artifact_list"
    /\ \E dir \in list_inflight, ok \in BOOLEAN :
        IF ok
        THEN /\ stats' = stats \o list_artifact(tree, dir)
             /\ list_inflight' = list_inflight \ {dir}
             /\ UNCHANGED <<list, pending, artifacts, round, list_errors, control>>
        ELSE \* try_concat stops at the first Err; map_err(ListFailed)?
             /\ Fail("ListFailed")
             /\ artifacts' = <<>>
             /\ list_errors' = list_errors + 1
             /\ UNCHANGED <<list, pending, list_inflight, stats, round>>
    /\ UNCHANGED <<inputs, submission, unit, polling, reporting, list_calls, download>>

\* variant of NextFrontier: the frontier is not cleared before the partition
NextFrontierUncleared(frontier, nodes) == frontier \o Dirs(nodes)

\* `list.clear(); for f in stats { .. else { list.push(f.id) } }`
NextFrontier(frontier, nodes) == Dirs(nodes)

\* variant of CrawlEnds: the crawl stops after its first round
CrawlEndsAfterRound(next) == TRUE

\* `if list.is_empty() { break; }`
CrawlEnds(next) == next = <<>>

\* the round's stream is exhausted: partition, then the next round or return
ListRoundEnd ==
    /\ pc = "fetch_artifact_list"
    /\ pending = <<>>
    /\ list_inflight = {}
    /\ LET found == artifacts \o Files(stats)
           next == NextFrontier(list, stats)
       IN  /\ artifacts' = found
           /\ list' = next
           /\ IF ~CrawlEnds(next)
              THEN /\ pending' = next
                   /\ stats' = <<>>
                   /\ round' = round + 1
                   /\ UNCHANGED <<list_inflight, control, download>>
              ELSE /\ UNCHANGED <<pending, stats, list_inflight, round>>
                   /\ IF command = "download"
                      THEN IF glob.kind = "Invalid"
                           THEN /\ Fail("glob")
                                /\ UNCHANGED download
                           ELSE /\ Goto("download_artifacts")
                                /\ EnterDownload(filter_artifact_list(found, glob))
                      ELSE /\ Goto("download_artifacts")
                           /\ EnterDownload(found)
    /\ UNCHANGED <<inputs, submission, unit, polling, reporting, list_calls, list_errors>>

(***************************************************************************)
(* download_artifacts                                                      *)
(***************************************************************************)
\* a download task is spawned for the next artifact of the stream
DownloadSpawn ==
    /\ pc = "download_artifacts"
    /\ dl_queue # <<>>
    /\ BufferHasRoom(dl_inflight, num_cpus)
    /\ dl_inflight' = dl_inflight \cup {Head(dl_queue).id}
    /\ dl_queue' = Tail(dl_queue)
    /\ UNCHANGED <<inputs, submission, unit, control, polling, reporting, crawl,
                   tries, incs, progress_bar, written>>

\* variant of AfterError: a failed attempt is always followed by another
AfterErrorUnbounded(try) == "retry"

\* variant of AfterError: the task panics after its third failed attempt
AfterErrorPanics(try) == IF try < MAX_TRIES THEN "retry" ELSE "panicked"

\* what the task does after a failed attempt number try:
\* `if _try < 4 { continue } else { panic!(..) }`, where `continue` in the
\* last iteration of `for _try in 1..=3` ends the loop and the task
AfterError(try) ==
    IF try < RETRY_GUARD
    THEN IF try < MAX_TRIES THEN "retry" ELSE "finished"
    ELSE "panicked"

\* one iteration of a task's retry loop: a download_artifact call and the
\* match on its result
DownloadAttempt ==
    /\ pc = "download_artifacts"
    /\ \E a \in dl_inflight, ok \in BOOLEAN :
        LET try == Len(tries[a]) + 1
        IN  IF ok
            THEN /\ tries' = [tries EXCEPT ![a] = Append(@, "Ok")]
                 /\ written' = written \cup {a}
                 /\ IF progress_bar.some
                    THEN /\ progress_bar' = [progress_bar EXCEPT !.pos = @ + 1]
                         /\ incs' = [incs EXCEPT ![a] = @ + 1]
                    ELSE UNCHANGED <<progress_bar, incs>>
                 /\ dl_inflight' = dl_inflight \ {a}
                 /\ UNCHANGED <<control, dl_queue>>
            ELSE /\ tries' = [tries EXCEPT ![a] = Append(@, "Err")]
                 /\ UNCHANGED <<written, progress_bar, incs, dl_queue>>
                 /\ CASE AfterError(try) = "retry" ->
                            UNCHANGED <<dl_inflight, control>>
                      [] AfterError(try) = "finished" ->
                            /\ dl_inflight' = dl_inflight \ {a}
                            /\ UNCHANGED control
                      [] OTHER ->
                            \* the JoinError of the panicked task:
                            \* try_collect stops, map_err(DownloadFailed)?
                            /\ Fail("DownloadFailed")
                            /\ UNCHANGED dl_inflight
    /\ UNCHANGED <<inputs, submission, unit, polling, reporting, crawl>>

\* variant of DownloadDone: the stream ends when its last task was spawned
DownloadDoneEarly ==
    /\ pc = "download_artifacts"
    /\ dl_queue = <<>>
    /\ Goto("patch_allure_paths")
    /\ UNCHANGED <<inputs, submission, unit, polling, reporting, crawl, download>>

\* every task has ended without a JoinError: try_collect yields Ok,
\* download_artifacts returns Ok(()) and the caller goes on to patching
DownloadDone ==
    /\ pc = "download_artifacts"
    /\ dl_queue = <<>>
    /\ dl_inflight = {}
    /\ Goto("patch_allure_paths")
    /\ UNCHANGED <<inputs, submission, unit, polling, reporting, crawl, download>>

(***************************************************************************)
(* patch_allure_paths: returns Ok(()), or panics when the directory or one *)
(* of its JSON files cannot be read, parsed or written.  A panic on the    *)
(* main task ends the process.                                             *)
(***************************************************************************)
PatchAllurePaths ==
    /\ pc = "patch_allure_paths"
    /\ \E ok \in BOOLEAN :
        IF ok
        THEN IF command = "run" THEN Goto("t_return") ELSE Return("Ok(())")
        ELSE /\ pc' = "exited"
             /\ result' = "panic"
             /\ exit_code' = EXIT_PANIC
             /\ UNCHANGED error
    /\ UNCHANGED <<inputs, submission, unit, polling, reporting, crawl, download>>

(***************************************************************************)
(* TriggerTestRunInteractor::execute                                       *)
(***************************************************************************)
\* the files create_run uploads, in the order of its upload_to_s3 calls:
\* the test application and the application if given, both files of each
\* application bundle, then each library bundle
BundleUploads(n) ==
    [i \in 1..(2 * n) |-> IF i % 2 = 1 THEN "bundle.app_path" ELSE "bundle.test_app_path"]

Uploads(test_app, app, application_bundle, library_bundle) ==
    (IF test_app THEN <<"test_app">> ELSE <<>>)
        \o (IF app THEN <<"app">> ELSE <<>>)
        \o BundleUploads(application_bundle)
        \o [i \in 1..library_bundle |-> "library_bundle"]

\* `let token = client.get_token().await?`, then create_run is called with
\* the files the command line named
TriggerGetToken ==
    /\ pc = "t_get_token"
    /\ \E ok \in BOOLEAN :
        IF ok
        THEN /\ Goto("t_create_run")
             /\ \E test_app \in BOOLEAN, app \in BOOLEAN,
                   application_bundle \in 0..MaxBundles :
                    \E library_bundle \in 0..(MaxBundles - application_bundle) :
                        to_upload' = Uploads(test_app, app, application_bundle, library_bundle)
        ELSE /\ Fail("get_token")
             /\ UNCHANGED to_upload
    /\ UNCHANGED <<inputs, uploaded, upload_errors, create_requests, unit,
                   polling, reporting, crawl, download>>

\* variant of UploadFailed: the failed upload is skipped
UploadSkipped ==
    /\ Goto("t_create_run")
    /\ to_upload' = Tail(to_upload)
    /\ UNCHANGED uploaded

\* `upload_to_s3(..).await?` on an Err: create_run returns the error, and
\* so does execute
UploadFailed ==
    /\ Fail("upload_to_s3")
    /\ to_upload' = <<>>
    /\ uploaded' = <<>>

\* the next upload_to_s3 call of create_run
CreateRunUpload ==
    /\ pc = "t_create_run"
    /\ to_upload # <<>>
    /\ \E ok \in BOOLEAN :
        IF ok
        THEN /\ uploaded' = Append(uploaded, Head(to_upload))
             /\ to_upload' = Tail(to_upload)
             /\ Goto("t_create_run")
             /\ UNCHANGED upload_errors
        ELSE /\ UploadFailed
             /\ upload_errors' = upload_errors + 1
    /\ UNCHANGED <<inputs, create_requests, unit, polling, reporting, crawl, download>>

\* variant of CreateRunSend: the request is sent before the argument lists
\* are converted
CreateRunSendUnchecked ==
    /\ pc = "t_create_run"
    /\ to_upload = <<>>
    /\ create_requests' = create_requests + 1
    /\ \E env_args_ok \in BOOLEAN :
        IF env_args_ok
        THEN Goto("t_submitted")
        ELSE Fail("EnvArgError")
    /\ UNCHANGED <<inputs, to_upload, uploaded, upload_errors, unit, polling, reporting,
                   crawl, download>>

\* after the last upload: vec_to_hashmap on both argument lists, then the
\* request is built and `self.client.post(url).json(&create_request).send()`
CreateRunSend ==
    /\ pc = "t_create_run"
    /\ to_upload = <<>>
    /\ \E env_args_ok \in BOOLEAN :
        IF env_args_ok
        THEN /\ create_requests' = create_requests + 1
             /\ Goto("t_submitted")
             /\ UNCHANGED uploaded
        ELSE /\ Fail("EnvArgError")
             /\ UNCHANGED <<uploaded, create_requests>>
    /\ UNCHANGED <<inputs, to_upload, upload_errors, unit, polling, reporting, crawl, download>>

\* variant of AfterSubmit: the wait loop is entered whatever the flag
AfterSubmitPolls(w) == "t_poll"

\* `if wait { .. loop { .. } } else { .. }` after create_run
AfterSubmit(w) == IF w THEN "t_poll" ELSE "t_started"

\* variant of SubmitFailed: the request is sent again
SubmitRetried == Goto("t_create_run")

\* the run-creation request failed (401/403, another non-2xx status, a
\* transport or a deserialization failure): `?` in create_run and in execute
SubmitFailed == Fail("create_run")

\* the response to the run-creation request: on success the run exists on
\* the remote service and create_run returns its id
TriggerCreateRun ==
    /\ pc = "t_submitted"
    /\ \E ok \in BOOLEAN :
        IF ok
        THEN /\ remote' = Running
             /\ Goto(AfterSubmit(wait))
        ELSE /\ SubmitFailed
             /\ UNCHANGED remote
    /\ uploaded' = <<>>
    /\ UNCHANGED <<inputs, to_upload, upload_errors, create_requests, unit,
                   stat, responses, get_run_calls, sleep_log,
                   reporting, crawl, download>>

\* variant of TriggerGetRun: a failed status query is retried after the sleep
TriggerGetRunRetrying ==
    /\ pc = "t_poll"
    /\ get_run_calls < MaxPolls
    /\ get_run_calls' = get_run_calls + 1
    /\ \E ok \in BOOLEAN :
        IF ok
        THEN /\ stat' = remote
             /\ responses' = Append(responses, remote)
             /\ Goto(IF remote.completed THEN "t_report" ELSE "t_sleep")
        ELSE /\ Goto("t_sleep")
             /\ UNCHANGED <<stat, responses>>
    /\ UNCHANGED <<inputs, submission, unit, remote, sleep_log, reporting, crawl, download>>

\* `let stat = client.get_run(&id).await?; if stat.completed.is_some() ..`
TriggerGetRun ==
    /\ pc = "t_poll"
    /\ get_run_calls < MaxPolls
    /\ get_run_calls' = get_run_calls + 1
    /\ \E ok \in BOOLEAN :
        IF ok
        THEN /\ stat' = remote
             /\ responses' = Append(responses, remote)
             /\ Goto(IF remote.completed THEN "t_report" ELSE "t_sleep")
        ELSE /\ Fail("get_run")
             /\ UNCHANGED <<stat, responses>>
    /\ UNCHANGED <<inputs, submission, unit, remote, sleep_log, reporting, crawl, download>>

\* variant of TriggerSleep: the loop polls again without sleeping
TriggerSleepSkipped ==
    /\ pc = "t_sleep"
    /\ Goto("t_poll")
    /\ UNCHANGED <<inputs, submission, unit, polling, reporting, crawl, download>>

\* `sleep(Duration::new(5, 0)).await` at the end of the loop body
TriggerSleep ==
    /\ pc = "t_sleep"
    /\ sleep_log' = Append(sleep_log, POLL_INTERVAL)
    /\ Goto("t_poll")
    /\ UNCHANGED <<inputs, submission, unit, remote, stat, responses, get_run_calls,
                   reporting, crawl, download>>

\* the completed branch up to its first await on the artifact service:
\* the finished event is printed and, if requested, written to the result file
\* (Url::parse(base_url) cannot fail here: the client has built its request
\* urls from the same base_url)
TriggerReport ==
    /\ pc = "t_report"
    /\ event' = TestRunFinished(stat)
    /\ \E io_ok \in BOOLEAN :
        IF result_file /\ ~io_ok
        THEN /\ Fail("io")
             /\ UNCHANGED <<file, crawl>>
        ELSE /\ file' = IF result_file THEN TestRunFinished(stat) ELSE file
             /\ IF output
                THEN /\ Goto("fetch_artifact_list")
                     /\ EnterFetch
                ELSE /\ Goto("t_return")
                     /\ UNCHANGED crawl
    /\ UNCHANGED <<inputs, submission, unit, polling, download>>

\* variant of Success: an unset flag is taken as "ignore failures"
SuccessUnsetIgnores(state, ignore) ==
    IF state = "failure" /\ ignore = "Some(false)" THEN "Ok(false)" ELSE "Ok(true)"

\* `match (stat.state.as_str(), ignore_test_failures)`
Success(state, ignore) ==
    IF state = "failure" /\ ignore \in {"Some(false)", "None"} THEN "Ok(false)" ELSE "Ok(true)"

TriggerReturn ==
    /\ pc = "t_return"
    /\ Return(Success(stat.state, ignore_test_failures))
    /\ UNCHANGED <<inputs, submission, unit, polling, reporting, crawl, download>>

\* the branch taken when wait is false
TriggerStarted ==
    /\ pc = "t_started"
    /\ event' = TestRunStarted
    /\ \E io_ok \in BOOLEAN :
        IF result_file /\ ~io_ok
        THEN /\ Fail("io")
             /\ UNCHANGED file
        ELSE /\ file' = IF result_file THEN TestRunStarted ELSE file
             /\ Return("Ok(true)")
    /\ UNCHANGED <<inputs, submission, unit, polling, crawl, download>>

(***************************************************************************)
(* DownloadArtifactsInteractor::execute                                    *)
(***************************************************************************)
\* `let stat = client.get_run(id).await?; if stat.completed.is_none() && wait`
DownloadGetRun ==
    /\ pc = "d_get_run"
    /\ get_run_calls' = get_run_calls + 1
    /\ \E ok \in BOOLEAN :
        IF ok
        THEN /\ stat' = remote
             /\ responses' = Append(responses, remote)
             /\ Goto(IF ~remote.completed /\ wait THEN "d_loop" ELSE "d_get_token")
        ELSE /\ Fail("get_run")
             /\ UNCHANGED <<stat, responses>>
    /\ UNCHANGED <<inputs, submission, unit, remote, sleep_log, reporting, crawl, download>>

\* `loop { if stat.completed.is_some() { break; } ..`: the test reads the
\* record fetched before the loop
DownloadLoopCheck ==
    /\ pc = "d_loop"
    /\ Goto(IF stat.completed THEN "d_get_token" ELSE "d_sleep")
    /\ UNCHANGED <<inputs, submission, unit, polling, reporting, crawl, download>>

\* `.. sleep(Duration::new(5, 0)).await; }`
DownloadLoopSleep ==
    /\ pc = "d_sleep"
    /\ Goto("d_loop")
    /\ UNCHANGED <<inputs, submission, unit, polling, reporting, crawl, download>>

\* `let token = client.get_token().await?`, then fetch_artifact_list begins
DownloadGetToken ==
    /\ pc = "d_get_token"
    /\ \E ok \in BOOLEAN :
        IF ok
        THEN /\ Goto("fetch_artifact_list")
             /\ EnterFetch
        ELSE /\ Fail("get_token")
             /\ UNCHANGED crawl
    /\ UNCHANGED <<inputs, submission, unit, polling, reporting, download>>

(***************************************************************************)
(* GetDeviceCatalogInteractor::execute                                     *)
(***************************************************************************)
DevicesGetToken ==
    /\ pc = "g_get_token"
    /\ \E ok \in BOOLEAN :
        IF ok THEN Goto("g_get_devices") ELSE Fail("get_token")
    /\ UNCHANGED <<inputs, submission, unit, polling, reporting, crawl, download>>

DevicesGetDevices ==
    /\ pc = "g_get_devices"
    /\ \E ok \in BOOLEAN :
        IF ok THEN Return("Ok(())") ELSE Fail("get_devices")
    /\ UNCHANGED <<inputs, submission, unit, polling, reporting, crawl, download>>

(***************************************************************************)
(* Cli::run: the value of the dispatching match and the exit status.       *)
(***************************************************************************)
\* the run arm yields the interactor's result; the download and devices
\* arms are `let _ = interactor.execute(..).await; Ok(true)`
CommandResult(cmd, r) == IF cmd = "run" THEN r ELSE "Ok(true)"

\* `match result { Ok(true) => exit(0), Ok(false) => exit(1), Err(_) => exit(1) }`
ExitCode(r) ==
    CASE r = "Ok(true)" -> EXIT_SUCCESS
      [] r = "Ok(false)" -> EXIT_FAILURE
      [] OTHER -> EXIT_FAILURE

\* process::exit ends every task still running
CliExit ==
    /\ pc = "returned"
    /\ pc' = "exited"
    /\ exit_code' = ExitCode(CommandResult(command, result))
    /\ list_inflight' = {}
    /\ dl_inflight' = {}
    /\ UNCHANGED <<inputs, submission, unit, result, error, polling, reporting,
                   list, pending, stats, artifacts, round, list_calls, list_errors,
                   dl_queue, tries, incs, progress_bar, written>>

Next ==
    \/ RemoteCompletes
    \/ TriggerGetToken
    \/ CreateRunUpload
    \/ CreateRunSend
    \/ TriggerCreateRun
    \/ TriggerGetRun
    \/ TriggerSleep
    \/ TriggerReport
    \/ TriggerReturn
    \/ TriggerStarted
    \/ DownloadGetRun
    \/ DownloadLoopCheck
    \/ DownloadLoopSleep
    \/ DownloadGetToken
    \/ ListSpawn
    \/ ListComplete
    \/ ListRoundEnd
    \/ DownloadSpawn
    \/ DownloadAttempt
    \/ DownloadDone
    \/ PatchAllurePaths
    \/ DevicesGetToken
    \/ DevicesGetDevices
    \/ CliExit

Spec == Init /\ [][Next]_vars

\* the runtime keeps running a task that is ready: the invocation takes
\* its next step whenever it has one
FairSpec == Init /\ [][Next]_vars /\ WF_vars(Next)

(***************************************************************************)
(* Unit specifications: one function of the program applied to arguments   *)
(* drawn from a bounded set, with no invocation of the client running.     *)
(***************************************************************************)
NoInvocation ==
    /\ command = "none" /\ pc = "none"
    /\ wait = FALSE /\ output = FALSE /\ ignore_test_failures = "None"
    /\ result_file = FALSE /\ no_progress_bars = FALSE /\ glob = NoGlob
    /\ num_cpus = 1
    /\ tree = [n |-> 0, parent |-> <<>>, is_file |-> <<>>]
    /\ remote = NoRun /\ stat = NoStat
    /\ result = "none" /\ error = "none" /\ exit_code = -1
    /\ responses = <<>> /\ get_run_calls = 0 /\ sleep_log = <<>>
    /\ event = NoEvent /\ file = NoEvent
    /\ list = <<>> /\ pending = <<>> /\ list_inflight = {} /\ stats = <<>>
    /\ artifacts = <<>> /\ round = 0 /\ list_calls = <<>> /\ list_errors = 0
    /\ dl_queue = <<>> /\ dl_inflight = {} /\ tries = <<>> /\ incs = <<>>
    /\ progress_bar = NoBar /\ written = {}
    /\ to_upload = <<>> /\ uploaded = <<>> /\ upload_errors = 0 /\ create_requests = 0

(***************************************************************************)
(* Strings are sequences of one-character strings; an Option<T> is the     *)
(* empty sequence (None) or a sequence of one value (Some).                *)
(***************************************************************************)
Chars == {"/", ".", "a", "R"}

Strings(n) == UNION { [1..k -> Chars] : k \in 0..n }

\* str::starts_with
starts_with(s, p) == Len(s) >= Len(p) /\ SubSeq(s, 1, Len(p)) = p

\* str::strip_prefix
strip_prefix(s, p) ==
    IF starts_with(s, p) THEN <<SubSeq(s, Len(p) + 1, Len(s))>> ELSE <<>>

\* Option::unwrap_or
unwrap_or(o, default) == IF o = <<>> THEN default ELSE o[1]

\* Path::is_absolute, on Unix
is_absolute(path) == starts_with(path, <<"/">>)

\* PathBuf::push, on Unix: an absolute path replaces the buffer; a relative
\* one is appended, after a separator unless the buffer is empty or ends
\* with one
push(buf, path) ==
    IF is_absolute(path) THEN path
    ELSE IF buf # <<>> /\ buf[Len(buf)] # "/" THEN buf \o <<"/">> \o path
    ELSE buf \o path

\* variant of absolute_path: the leading "/" of the id is kept
absolute_path_unstripped(base_path, run_id, artifact_id) ==
    push(base_path, unwrap_or(strip_prefix(artifact_id, run_id \o <<"/">>), artifact_id))

\* download_artifact: the path of the local file,
\*   let id = artifact.id.strip_prefix('/').unwrap_or(&artifact.id);
\*   let prefix_with_id = format!("{}/", run_id);
\*   let relative_path = artifact.id.strip_prefix(&prefix_with_id).unwrap_or(id);
\*   let mut absolute_path = base_path.clone(); absolute_path.push(relative_path);
absolute_path(base_path, run_id, artifact_id) ==
    LET id == unwrap_or(strip_prefix(artifact_id, <<"/">>), artifact_id)
        prefix_with_id == run_id \o <<"/">>
        relative_path == unwrap_or(strip_prefix(artifact_id, prefix_with_id), id)
    IN  push(base_path, relative_path)

\* --output of the unit specification: the relative directory "o"
OutputDir == <<"o">>
\* the run ids of the unit specification
RunIds == {<<"R">>, <<"R", "R">>}

PathInit ==
    /\ NoInvocation
    /\ fn = "download_artifact"
    /\ args \in [run_id : RunIds, id : Strings(MaxIdLen)]
    /\ ret = <<>>
    /\ trace = <<>>

\* download_artifact with a successful response: the parent directory is
\* created and the file is created at absolute_path
DownloadArtifactCreate ==
    /\ fn = "download_artifact"
    /\ ret = <<>>
    /\ ret' = <<absolute_path(OutputDir, args.run_id, args.id)>>
    /\ UNCHANGED <<invocation, fn, args, trace>>

PathNext == DownloadArtifactCreate

PathSpec == PathInit /\ [][PathNext]_vars

(***************************************************************************)
(* api_error_adapter                                                       *)
(***************************************************************************)
UNAUTHORIZED == 401    \* StatusCode::UNAUTHORIZED
FORBIDDEN == 403       \* StatusCode::FORBIDDEN

\* the status codes of a final response (1xx responses are interim)
StatusCodes == 200..599
\* StatusCode::is_client_error, StatusCode::is_server_error
is_client_error(status_code) == status_code \in 400..499
is_server_error(status_code) == status_code \in 500..599

\* Response::error_for_status_ref returns Err for these
error_for_status(status_code) == is_client_error(status_code) \/ is_server_error(status_code)

\* the values of Result<reqwest::Response>
Response(status_code, body) ==
    [ok |-> TRUE, kind |-> "Response", status_code |-> status_code, body |-> body]
InvalidAuthenticationToken ==
    [ok |-> FALSE, kind |-> "InvalidAuthenticationToken", status_code |-> 0, body |-> ""]
RequestFailedWithCode(status_code, body) ==
    [ok |-> FALSE, kind |-> "RequestFailedWithCode", status_code |-> status_code, body |-> body]
\* `response.text().await?`: the body could not be read
BodyError == [ok |-> FALSE, kind |-> "reqwest::Error", status_code |-> 0, body |-> ""]

\* api_error_adapter, for a response with this status and body; readable
\* says whether `response.text()` succeeds.  The error of
\* error_for_status_ref always carries its status, which leaves the
\* RequestFailed arm without a case.
api_error_adapter(status_code, body, readable) ==
    IF ~error_for_status(status_code) THEN Response(status_code, body)
    ELSE IF ~readable THEN BodyError
    ELSE IF status_code \in {UNAUTHORIZED, FORBIDDEN} THEN InvalidAuthenticationToken
    ELSE RequestFailedWithCode(status_code, body)

Bodies == {"", "denied"}

AdapterInit ==
    /\ NoInvocation
    /\ fn = "api_error_adapter"
    /\ args \in [status_code : StatusCodes, body : Bodies, readable : BOOLEAN]
    /\ ret = <<>>
    /\ trace = <<>>

ApiErrorAdapter ==
    /\ fn = "api_error_adapter"
    /\ ret = <<>>
    /\ ret' = <<api_error_adapter(args.status_code, args.body, args.readable)>>
    /\ UNCHANGED <<invocation, fn, args, trace>>

AdapterNext == ApiErrorAdapter

AdapterSpec == AdapterInit /\ [][AdapterNext]_vars

(***************************************************************************)
(* One download task of download_artifacts: the retry loop around          *)
(* download_artifact, whose request is answered with the next status.      *)
(***************************************************************************)
TaskStatuses == {200, UNAUTHORIZED, FORBIDDEN, 500}

TaskInit ==
    /\ NoInvocation
    /\ fn = "download_task"
    /\ args \in [1..MAX_TRIES -> TaskStatuses]
    /\ ret = <<>>
    /\ trace = <<>>

\* one iteration of `for _try in 1..=3`: download_artifact sends the request,
\* `api_error_adapter(src).await?` decides its result, and the match
\* returns, continues or panics
DownloadTaskAttempt ==
    /\ fn = "download_task"
    /\ ret = <<>>
    /\ LET try == Len(trace) + 1
           download_result == api_error_adapter(args[try], "", TRUE)
       IN  /\ trace' = Append(trace, download_result)
           /\ ret' = IF download_result.ok THEN <<"returned">>
                     ELSE CASE AfterError(try) = "retry" -> <<>>
                            [] AfterError(try) = "finished" -> <<"returned">>
                            [] OTHER -> <<"panicked">>
    /\ UNCHANGED <<invocation, fn, args>>

TaskNext == DownloadTaskAttempt

TaskSpec == TaskInit /\ [][TaskNext]_vars

(***************************************************************************)
(* cli::android::run: the checks that precede the interactor.  An optional *)
(* argument is modelled by its presence, a list by its length (0: None).   *)
(***************************************************************************)
UnsupportedRunConfiguration == "Err(ConfigurationError::UnsupportedRunConfiguration)"

\* variant of missing_apks: only the absence of all four arguments is rejected
missing_apks_all_none(application, test_application, application_bundle, library_bundle) ==
    ~application /\ ~test_application /\ application_bundle = 0 /\ library_bundle = 0

\* the three checks on the APK arguments: none given, the application
\* alone, the test application alone
missing_apks(application, test_application, application_bundle, library_bundle) ==
    \/ ~application /\ ~test_application /\ application_bundle = 0 /\ library_bundle = 0
    \/ application /\ ~test_application /\ application_bundle = 0 /\ library_bundle = 0
    \/ ~application /\ test_application /\ application_bundle = 0 /\ library_bundle = 0

\* the two checks on mock_location
mock_location_unsupported(application, application_bundle, mock_location) ==
    \/ application_bundle > 1 /\ mock_location
    \/ application_bundle = 0 /\ ~application /\ mock_location

\* run up to its call of execute: the value it returns early, or <<>> when
\* it goes on to TriggerTestRunInteractor::execute.  device_ok stands for the
\* match on (device, flavor, system_image, os_version), valid for the result
\* of the filter file, result file, pull files, concurrency limit and md5
\* validations
android_run(a) ==
    IF missing_apks(a.application, a.test_application, a.application_bundle, a.library_bundle)
    THEN <<UnsupportedRunConfiguration>>
    ELSE IF mock_location_unsupported(a.application, a.application_bundle, a.mock_location)
    THEN <<UnsupportedRunConfiguration>>
    ELSE IF ~a.device_ok THEN <<UnsupportedRunConfiguration>>
    ELSE IF ~a.valid THEN <<"Err(InputError)">>
    ELSE <<>>

AndroidRunInit ==
    /\ NoInvocation
    /\ fn = "android::run"
    /\ args \in [application : BOOLEAN, test_application : BOOLEAN,
                 application_bundle : 0..(MaxBundles + 1), library_bundle : 0..MaxBundles,
                 mock_location : BOOLEAN, device_ok : BOOLEAN, valid : BOOLEAN]
    /\ ret = <<>>
    /\ trace = <<>>

\* run returns early, or calls execute (the first call that uses the
\* network) and returns its result
AndroidRun ==
    /\ fn = "android::run"
    /\ ret = <<>>
    /\ IF android_run(args) # <<>>
       THEN /\ ret' = android_run(args)
            /\ UNCHANGED trace
       ELSE /\ trace' = Append(trace, "execute")
            /\ \E r \in {"Ok(true)", "Ok(false)", "Err"} : ret' = <<r>>
    /\ UNCHANGED <<invocation, fn, args>>

AndroidRunSpec == AndroidRunInit /\ [][AndroidRun]_vars

(***************************************************************************)
(* filter_artifact_list on artifact ids.  A glob is None, or Some pattern  *)
(* of literal characters and "*"; a pattern with an unclosed "[" does not  *)
(* compile.                                                                *)
(***************************************************************************)
IdChars == {"R", "/", "a"}
GlobChars == {"a", "/", "*", "["}

StringsOver(cs, n) == UNION { [1..k -> cs] : k \in 0..n }

\* Glob::new: Err for a character class that is never closed
glob_compiles(pattern) == \A i \in 1..Len(pattern) : pattern[i] # "["

\* GlobMatcher::is_match with the default options: "*" matches any
\* sequence of characters, separators included; any other character
\* matches itself
RECURSIVE is_match(_, _)
is_match(pattern, s) ==
    IF pattern = <<>> THEN s = <<>>
    ELSE IF Head(pattern) = "*"
         THEN is_match(Tail(pattern), s) \/ (s # <<>> /\ is_match(pattern, Tail(s)))
         ELSE s # <<>> /\ Head(s) = Head(pattern) /\ is_match(Tail(pattern), Tail(s))

\* variant of filter_ids: the glob is matched against the whole id
filter_ids_unstripped(ids, pattern, prefix) ==
    SelectSeq(ids, LAMBDA x : is_match(pattern, x))

\* `.filter(|x| matcher.is_match(x.id.strip_prefix(prefix).unwrap_or(&x.id)))`
filter_ids(ids, pattern, prefix) ==
    SelectSeq(ids, LAMBDA x : is_match(pattern, unwrap_or(strip_prefix(x, prefix), x)))

\* filter_artifact_list(artifacts, glob, prefix)
filter_artifacts(ids, g, prefix) ==
    IF g = <<>> THEN [ok |-> TRUE, list |-> ids]
    ELSE IF ~glob_compiles(g[1]) THEN [ok |-> FALSE, list |-> <<>>]
    ELSE [ok |-> TRUE, list |-> filter_ids(ids, g[1], prefix)]

FilterInit ==
    /\ NoInvocation
    /\ fn = "filter_artifact_list"
    /\ \E run_id \in {<<"R">>}, pattern \in StringsOver(GlobChars, 2), some \in BOOLEAN,
          k \in 0..2 :
        \E ids \in [1..k -> StringsOver(IdChars, MaxIdLen - 2)] :
            args = [id |-> run_id, artifacts |-> ids,
                    glob |-> IF some THEN <<pattern>> ELSE <<>>]
    /\ ret = <<>>
    /\ trace = <<>>

\* `let test_run_id_prefix = format!("{}/", id);` and the call
FilterArtifactList ==
    /\ fn = "filter_artifact_list"
    /\ ret = <<>>
    /\ ret' = <<filter_artifacts(args.artifacts, args.glob, args.id \o <<"/">>)>>
    /\ UNCHANGED <<invocation, fn, args, trace>>

FilterSpec == FilterInit /\ [][FilterArtifactList]_vars

(***************************************************************************)
(* vec_to_hashmap.  A HashMap is the set of its <<key, value>> entries.    *)
(***************************************************************************)
MaxArgs == 2        \* entries of an argument list
MaxArgLen == 4      \* characters of an entry

ArgChars == {"=", "a"}

\* the positions of '=' in an entry
Separators(arg) == { i \in 1..Len(arg) : arg[i] = "=" }

\* variant of splitn: the entry is split at its last '='
rsplitn(arg) ==
    IF Separators(arg) = {} THEN <<arg>>
    ELSE LET i == CHOOSE j \in Separators(arg) : \A k \in Separators(arg) : k <= j
         IN  <<SubSeq(arg, 1, i - 1), SubSeq(arg, i + 1, Len(arg))>>

\* `arg.splitn(2, '=').collect()`: the entry itself when it has no '=',
\* otherwise what precedes and what follows its first '='
splitn(arg) ==
    IF Separators(arg) = {} THEN <<arg>>
    ELSE LET i == CHOOSE j \in Separators(arg) : \A k \in Separators(arg) : j <= k
         IN  <<SubSeq(arg, 1, i - 1), SubSeq(arg, i + 1, Len(arg))>>

\* HashMap::insert: the value replaces the one the key had
insert(map, key, value) == { e \in map : e[1] # key } \cup {<<key, value>>}

MissingValue(env_arg) == [ok |-> FALSE, kind |-> "EnvArgError::MissingValue", env_arg |-> env_arg]
InvalidKeyValue(env_arg) ==
    [ok |-> FALSE, kind |-> "EnvArgError::InvalidKeyValue", env_arg |-> env_arg]

\* the `for arg in args` loop from the map built so far
RECURSIVE insert_all(_, _)
insert_all(arguments, map) ==
    IF arguments = <<>> THEN [ok |-> TRUE, value |-> <<map>>]
    ELSE LET arg == Head(arguments)
             key_value == splitn(arg)
         IN  IF Len(key_value) = 2
             THEN IF key_value[2] = <<>>
                  THEN MissingValue(arg)
                  ELSE insert_all(Tail(arguments), insert(map, key_value[1], key_value[2]))
             ELSE InvalidKeyValue(arg)

\* `match vec { Some(args) => .., None => Ok(None) }`
vec_to_hashmap(vec) ==
    IF vec = <<>> THEN [ok |-> TRUE, value |-> <<>>] ELSE insert_all(vec[1], {})

EnvArgsInit ==
    /\ NoInvocation
    /\ fn = "vec_to_hashmap"
    /\ \/ args = <<>>
       \/ \E k \in 0..MaxArgs :
            \E entries \in [1..k -> StringsOver(ArgChars, MaxArgLen)] : args = <<entries>>
    /\ ret = <<>>
    /\ trace = <<>>

VecToHashmap ==
    /\ fn = "vec_to_hashmap"
    /\ ret = <<>>
    /\ ret' = <<vec_to_hashmap(args)>>
    /\ UNCHANGED <<invocation, fn, args, trace>>

EnvArgsSpec == EnvArgsInit /\ [][VecToHashmap]_vars

(***************************************************************************)
(* cli::ios::infer_parameters                                              *)
(***************************************************************************)
IosDevice ==
    {"iPhone-11", "iPhone-15", "iPhone-15-Pro", "iPhone-15-Pro-Max",
     "iPhone-16", "iPhone-16-Pro", "iPhone-16-Pro-Max", "iPhone-16-Plus"}
XcodeVersion == {"15.4", "16.2", "16.3"}
OsVersion == {"17.5", "18.2", "18.4"}

Option(S) == {<<>>} \cup { <<x>> : x \in S }

get_supported_configs ==
    << <<"iPhone-15", "15.4", "17.5">>,
       <<"iPhone-15-Pro", "15.4", "17.5">>,
       <<"iPhone-15-Pro-Max", "15.4", "17.5">>,
       <<"iPhone-11", "15.4", "17.5">>,
       <<"iPhone-16", "16.2", "18.2">>,
       <<"iPhone-16-Pro", "16.2", "18.2">>,
       <<"iPhone-16-Pro-Max", "16.2", "18.2">>,
       <<"iPhone-16-Plus", "16.2", "18.2">>,
       <<"iPhone-11", "16.2", "18.2">>,
       <<"iPhone-16", "16.3", "18.4">>,
       <<"iPhone-16-Pro", "16.3", "18.4">>,
       <<"iPhone-16-Pro-Max", "16.3", "18.4">>,
       <<"iPhone-16-Plus", "16.3", "18.4">>,
       <<"iPhone-11", "16.3", "18.4">> >>

\* variant of config_matches: the os version is not compared
config_matches_ignoring_os(c, device, xcode_version, os_version) ==
    /\ device = <<>> \/ <<c[1]>> = device
    /\ xcode_version = <<>> \/ <<c[2]>> = xcode_version

\* the filter closure: `(device.is_none() || d == &device) && ..`
config_matches(c, device, xcode_version, os_version) ==
    /\ device = <<>> \/ <<c[1]>> = device
    /\ xcode_version = <<>> \/ <<c[2]>> = xcode_version
    /\ os_version = <<>> \/ <<c[3]>> = os_version

infer_parameters(device, xcode_version, os_version) ==
    LET filtered_configs ==
            SelectSeq(get_supported_configs,
                      LAMBDA c : config_matches(c, device, xcode_version, os_version))
    IN  IF filtered_configs = <<>>
        THEN [ok |-> FALSE, error |-> "Invalid parameters"]
        ELSE IF Len(filtered_configs) = 1
        THEN [ok |-> TRUE, value |-> filtered_configs[1]]
        ELSE [ok |-> FALSE,
              error |-> "Ambiguous parameters, please provide more specific input."]

InferInit ==
    /\ NoInvocation
    /\ fn = "infer_parameters"
    /\ args \in [device : Option(IosDevice), xcode_version : Option(XcodeVersion),
                 os_version : Option(OsVersion)]
    /\ ret = <<>>
    /\ trace = <<>>

InferParameters ==
    /\ fn = "infer_parameters"
    /\ ret = <<>>
    /\ ret' = <<infer_parameters(args.device, args.xcode_version, args.os_version)>>
    /\ UNCHANGED <<invocation, fn, args, trace>>

InferSpec == InferInit /\ [][InferParameters]_vars

(***************************************************************************)
(* filtering::convert: validation of a filter file.  Of a filter's regex   *)
(* and values the model keeps their presence; of its file, whether it is   *)
(* absent, or names a file that passes the checks made on it (relative,    *)
(* regular, non-empty, readable) or one that fails them.                   *)
(***************************************************************************)
supported_types ==
    {"fully-qualified-class-name", "fully-qualified-test-name", "simple-class-name",
     "simple-test-name", "package", "method", "annotation"}
unsupported_types == {"allure", "fragmentation", "annotationData"}

Filter(mtype, regex, values, path, op, filters) ==
    [mtype |-> mtype, regex |-> regex, values |-> values, file |-> path,
     op |-> op, filters |-> filters]

InvalidFilterConfiguration(mtype, message) ==
    [ok |-> FALSE, kind |-> "InvalidFilterConfiguration", mtype |-> mtype, message |-> message]
FilterOk == [ok |-> TRUE, kind |-> "", mtype |-> "", message |-> ""]

\* variant of validate_fields: two of the three fields are accepted together
validate_fields_lenient(mtype, regex, values, path) ==
    IF ~regex /\ ~values /\ path = "None"
    THEN InvalidFilterConfiguration(mtype,
            "At least one of regex, values or file should be specified")
    ELSE IF path = "Bad"
    THEN InvalidFilterConfiguration(mtype, "File does not exist or is not a regular file")
    ELSE FilterOk

\* `match (&filter.regex, &filter.values, &filter.file)`
validate_fields(mtype, regex, values, path) ==
    CASE ~regex /\ ~values /\ path = "None" ->
            InvalidFilterConfiguration(mtype,
                "At least one of regex, values or file should be specified")
      [] ~regex /\ ~values /\ path = "Bad" ->
            InvalidFilterConfiguration(mtype, "File does not exist or is not a regular file")
      [] ~regex /\ ~values /\ path = "Some" -> FilterOk
      [] ~regex /\ values /\ path = "None" -> FilterOk
      [] regex /\ ~values /\ path = "None" -> FilterOk
      [] OTHER ->
            InvalidFilterConfiguration(mtype,
                "only one of [regex, values, file] can be specified")

validate_filter(filter) ==
    IF filter.mtype \in unsupported_types
    THEN [FilterOk EXCEPT !.ok = FALSE, !.kind = "UnsupportedFilterType", !.mtype = filter.mtype]
    ELSE IF filter.mtype \notin supported_types
    THEN [FilterOk EXCEPT !.ok = FALSE, !.kind = "InvalidFilterType", !.mtype = filter.mtype]
    ELSE validate_fields(filter.mtype, filter.regex, filter.values, filter.file)

\* the first error of validate_filter over a list of filters, or FilterOk
RECURSIVE validate_each(_)
validate_each(filters) ==
    IF filters = <<>> THEN FilterOk
    ELSE LET r == validate_filter(Head(filters))
         IN  IF r.ok THEN validate_each(Tail(filters)) ELSE r

\* the body of validate_filters' loop for one filter
validate_one(filter) ==
    IF filter.mtype = "composition"
    THEN IF filter.op = <<>>
         THEN InvalidFilterConfiguration(filter.mtype, "missing 'op' field")
         ELSE IF filter.op = <<"">>
         THEN InvalidFilterConfiguration(filter.mtype, "empty 'op' field")
         ELSE IF filter.filters = <<>>
         THEN InvalidFilterConfiguration(filter.mtype, "missing composition filters")
         ELSE validate_each(filter.filters[1])
    ELSE validate_filter(filter)

RECURSIVE validate_filters(_)
validate_filters(filters) ==
    IF filters = <<>> THEN FilterOk
    ELSE LET r == validate_one(Head(filters))
         IN  IF r.ok THEN validate_filters(Tail(filters)) ELSE r

\* validate, for a file that deserialized (so it holds the key
\* filteringConfiguration); mentions_lists: the text holds "allowlist" or
\* "blocklist"
validate(cnf) ==
    IF ~cnf.mentions_lists
    THEN [ok |-> FALSE, kind |-> "MissedMandatoryFields", mtype |-> "", message |-> ""]
    ELSE LET r == IF cnf.allowlist = <<>> THEN FilterOk ELSE validate_filters(cnf.allowlist[1])
         IN  IF ~r.ok THEN r
             ELSE IF cnf.blocklist = <<>> THEN FilterOk ELSE validate_filters(cnf.blocklist[1])

\* the configurations of a filter file that deserialized: each list absent
\* or holding one or two filters; a filter is a leaf (no op, no filters) of
\* a supported, an unsupported, an unknown or the composition type, or a
\* composition over no, one or two leaves
ConvertInit ==
    /\ NoInvocation
    /\ fn = "convert"
    /\ LET MTypes == {"package", "simple-test-name", "allure", "unknown", "composition"}
           Leaves ==
                { Filter(t, r, v, f, <<>>, <<>>) :
                    t \in MTypes, r \in BOOLEAN, v \in BOOLEAN, f \in {"None", "Some", "Bad"} }
           Plain == { l \in Leaves : l.file = "None" }
           MemberLists ==
                {<<>>} \cup { <<m>> : m \in Leaves } \cup { <<m, n>> : m \in Plain, n \in Plain }
           Compositions ==
                { Filter("composition", r, FALSE, "None", op, fs) :
                    r \in BOOLEAN, op \in Option({"", "union"}), fs \in Option(MemberLists) }
           Filters == Leaves \cup Compositions
       IN  \E a \in Option({ <<f>> : f \in Filters } \cup { <<f, g>> : f \in Plain, g \in Plain }),
              b \in Option({ <<f>> : f \in Plain }),
              m \in BOOLEAN :
                /\ (a # <<>> \/ b # <<>>) => m
                /\ args = [allowlist |-> a, blocklist |-> b, mentions_lists |-> m]
    /\ ret = <<>>
    /\ trace = <<>>

\* convert after the file was read and deserialized
Convert ==
    /\ fn = "convert"
    /\ ret = <<>>
    /\ ret' = <<validate(args)>>
    /\ UNCHANGED <<invocation, fn, args, trace>>

ConvertSpec == ConvertInit /\ [][Convert]_vars

(***************************************************************************)
(* Two download tasks of one download_artifacts call, for artifacts with   *)
(* distinct ids: each creates the file download_artifact computes for its  *)
(* artifact.  trace holds the files created so far.                        *)
(***************************************************************************)
TasksInit ==
    /\ NoInvocation
    /\ fn = "download_artifacts"
    /\ \E run_id \in RunIds, a \in Strings(MaxIdLen - 2), b \in Strings(MaxIdLen - 2) :
        /\ a # b
        /\ args = [run_id |-> run_id, artifacts |-> <<a, b>>]
    /\ ret = <<>>
    /\ trace = <<>>

\* a task's download_artifact call reaches File::create(absolute_path)
TaskCreate ==
    /\ fn = "download_artifacts"
    /\ \E i \in 1..Len(args.artifacts) :
        /\ \A k \in 1..Len(trace) : trace[k].task # i
        /\ trace' = Append(trace,
                [task |-> i,
                 path |-> absolute_path(OutputDir, args.run_id, args.artifacts[i])])
    /\ UNCHANGED <<invocation, fn, args, ret>>

TasksSpec == TasksInit /\ [][TaskCreate]_vars

(***************************************************************************)
(* patch_allure_paths on the directory <output>/report/allure-results.  A  *)
(* source string is a sequence of pieces: the two markers, the prefix the  *)
(* patch writes, and other text.  A file is its extension and, when its    *)
(* text parses, its JSON value: the attachments array if it has one, and   *)
(* one other member.                                                       *)
(***************************************************************************)
MaxSourceLen == 2       \* pieces of a source string
MaxStream == 3          \* bytes of a stream read through the HashingReader
MaxSent == 3            \* messages on the channel of a HashingReader

\* variant of patch_source: the prefix is put before the whole string
patch_source_prepend(source) ==
    IF \E i \in 1..Len(source) : source[i] \in {"logs/omni", "video/omni"}
    THEN <<"../../">> \o source ELSE source

\* `source_str.find("logs/omni").or_else(|| source_str.find("video/omni"))`
\* and `format!("../../{}", &source_str[index..])`
patch_source(source) ==
    LET find(marker) ==
            LET at == { i \in 1..Len(source) : source[i] = marker }
            IN  IF at = {} THEN 0 ELSE CHOOSE i \in at : \A j \in at : i <= j
        index == IF find("logs/omni") # 0 THEN find("logs/omni") ELSE find("video/omni")
    IN  IF index # 0 THEN <<"../../">> \o SubSeq(source, index, Len(source)) ELSE source

\* patch_file on a parsed value: each element of a top-level attachments
\* array whose "source" is a string gets it patched; the value is written back
patch_file(f) ==
    IF f.attachments = <<>> THEN f
    ELSE [f EXCEPT !.attachments =
            << [j \in 1..Len(f.attachments[1]) |->
                    LET attachment == f.attachments[1][j]
                    IN  IF attachment.kind = "string"
                        THEN [attachment EXCEPT !.source = patch_source(@)]
                        ELSE attachment] >>]

\* patch_allure_paths: Ok(()) at once when the directory does not exist;
\* otherwise every regular file with the extension json is patched, and a
\* file that cannot be read or parsed makes the function panic
patch_allure_paths(dir) ==
    IF ~dir.exists THEN [result |-> "Ok(())", dir |-> dir]
    ELSE IF \E i \in 1..Len(dir.files) : dir.files[i].ext = "json" /\ ~dir.files[i].valid
    THEN [result |-> "panicked", dir |-> dir]
    ELSE [result |-> "Ok(())",
          dir |-> [dir EXCEPT !.files =
                    [i \in 1..Len(dir.files) |->
                        IF dir.files[i].ext = "json" THEN patch_file(dir.files[i])
                        ELSE dir.files[i]]]]

PatchInit ==
    /\ NoInvocation
    /\ fn = "patch_allure_paths"
    /\ LET Sources == StringsOver({"logs/omni", "video/omni", "../../", "x"}, MaxSourceLen)
           Attachments ==
                {[kind |-> "absent", source |-> <<>>], [kind |-> "number", source |-> <<>>]}
                    \cup { [kind |-> "string", source |-> s] : s \in Sources }
           Arrays == {<<>>} \cup { <<a>> : a \in Attachments }
                        \cup { <<a, b>> : a \in Attachments, b \in Attachments }
       IN  \E exists \in BOOLEAN, ext \in {"json", "txt"}, valid \in BOOLEAN,
              attachments \in Option(Arrays), other \in {<<"x">>, <<"x", "logs/omni">>} :
                args = [exists |-> exists,
                        files |-> IF exists
                                  THEN << [ext |-> ext, valid |-> valid,
                                           attachments |-> attachments, other |-> other] >>
                                  ELSE <<>>]
    /\ ret = <<>>
    /\ trace = <<>>

\* a call of patch_allure_paths on the directory as the call before left
\* it; trace holds the directory after each call
PatchAllureDir ==
    /\ fn = "patch_allure_paths"
    /\ Len(ret) < 2
    /\ \A k \in 1..Len(ret) : ret[k] = "Ok(())"
    /\ LET r == patch_allure_paths(IF trace = <<>> THEN args ELSE trace[Len(trace)])
       IN  /\ ret' = Append(ret, r.result)
           /\ trace' = Append(trace, r.dir)
    /\ UNCHANGED <<invocation, fn, args>>

PatchSpec == PatchInit /\ [][PatchAllureDir]_vars

(***************************************************************************)
(* The result file of the Android and iOS run commands.  The value of      *)
(* `path.extension().map(|f| f.to_str())` is <<>> (None) for a path        *)
(* without extension, <<<<>>>> (Some(None)) for an extension that is not   *)
(* UTF-8, and <<<<x>>>> (Some(Some(x))) for the extension x.               *)
(***************************************************************************)
\* cli::validate::result_file_args, on Some(result_file)
result_file_args(extension) ==
    CASE extension \in {<<<<"json">>>>, <<<<>>>>} -> "Ok"
      [] extension \in {<<<<"yaml">>>>, <<<<"yml">>>>} -> "Ok"
      [] extension = <<>> -> "Err(InputError::NonUTF8Path)"
      [] OTHER -> "Err(InputError::InvalidFileExtension)"

\* serialize_event: the format chosen, or the error
serialize_event(extension) ==
    CASE extension \in {<<<<"json">>>>, <<<<>>>>} -> "Ok(json)"
      [] extension \in {<<<<"yaml">>>>, <<<<"yml">>>>} -> "Ok(yaml)"
      [] extension = <<>> -> "Err(InputError::NonUTF8Path)"
      [] OTHER -> "Err(InputError::InvalidFileExtension)"

ResultFileInit ==
    /\ NoInvocation
    /\ fn = "run"
    /\ args \in [platform : {"android", "ios"},
                 result_file : Option({<<>>, <<<<>>>>, <<<<"json">>>>, <<<<"yaml">>>>,
                                       <<<<"yml">>>>, <<<<"txt">>>>, <<<<"">>>>}),
                 wait_flag : BOOLEAN, valid : BOOLEAN]
    /\ ret = <<>>
    /\ trace = <<>>

\* run up to its call of execute: the validations before result_file_args
\* (valid), then result_file_args
RunValidate ==
    /\ fn = "run"
    /\ ret = <<>> /\ trace = <<>>
    /\ IF ~args.valid
       THEN ret' = <<"Err">> /\ UNCHANGED trace
       ELSE LET r == IF args.result_file = <<>> THEN "Ok"
                     ELSE result_file_args(args.result_file[1])
            IN  IF r = "Ok"
                THEN trace' = <<"result_file_args">> /\ UNCHANGED ret
                ELSE ret' = <<r>> /\ UNCHANGED trace
    /\ UNCHANGED <<invocation, fn, args>>

\* execute: token, uploads and submission, the status polls when waiting,
\* and the event written to the result file
RunExecute ==
    /\ fn = "run"
    /\ ret = <<>> /\ trace = <<"result_file_args">>
    /\ \E token_ok \in BOOLEAN, submitted \in BOOLEAN, completed \in BOOLEAN :
        IF ~token_ok
        THEN /\ trace' = trace \o <<"get_token">>
             /\ ret' = <<"Err">>
        ELSE IF ~submitted \/ (args.wait_flag /\ ~completed)
        THEN /\ trace' = trace \o <<"get_token", "create_run">>
             /\ ret' = <<"Err">>
        ELSE IF args.result_file = <<>>
        THEN /\ trace' = trace \o <<"get_token", "create_run">>
             /\ ret' = <<"Ok">>
        ELSE LET data == serialize_event(args.result_file[1])
             IN  /\ trace' = trace \o <<"get_token", "create_run", "serialize_event">>
                 /\ ret' = IF data \in {"Ok(json)", "Ok(yaml)"} THEN <<"Ok">> ELSE <<data>>
    /\ UNCHANGED <<invocation, fn, args>>

ResultFileSpec == ResultFileInit /\ [][RunValidate \/ RunExecute]_vars

(***************************************************************************)
(* The stage announcements of the run and download commands.  The trace    *)
(* holds, in order, the lines printed through the formatter and the        *)
(* awaited operations between them.                                        *)
(***************************************************************************)
\* StandardFormatter::new
StandardFormatter(stage_count) == [stage_count |-> stage_count, index |-> 1]

\* Formatter::stage for StandardFormatter: the line "[index/stage_count]
\* message"; self is borrowed immutably and no field is assigned
stage(self, message) ==
    [kind |-> "stage", index |-> self.index, stage_count |-> self.stage_count,
     message |-> message]

\* the formatter that execute creates for the invocation a, and the calls
\* execute makes on it with the awaited operations in between, for the
\* completed run of a waiting invocation
Calls(a) ==
    LET steps == IF a.wait_flag /\ a.output THEN 5 ELSE IF a.wait_flag THEN 2 ELSE 1
        formatter == StandardFormatter(IF a.command = "run" THEN steps ELSE 4)
        Stage(m) == <<stage(formatter, m)>>
        Message(m) == <<[kind |-> "message", index |-> 0, stage_count |-> 0, message |-> m]>>
        Await(m) == <<[kind |-> "await", index |-> 0, stage_count |-> 0, message |-> m]>>
        Retrieve ==
            Stage("Fetching file list...") \o Await("fetch_artifact_list")
                \o Stage("Downloading files...") \o Await("download_artifacts")
                \o Stage("Patching local relative paths...") \o Await("patch_allure_paths")
    IN  IF a.command = "run"
        THEN Await("get_token") \o Stage("Submitting new run...") \o Await("create_run")
                \o (IF a.wait_flag
                    THEN Stage("Waiting for test run to finish...") \o Await("get_run")
                            \o Message("TestRunFinished")
                            \o (IF a.error_message
                                THEN Message("Error message:") \o Message("error_message")
                                ELSE <<>>)
                            \o (IF a.output THEN Retrieve ELSE <<>>)
                    ELSE Message("TestRunStarted"))
        ELSE Stage("Checking test run state...") \o Await("get_run")
                \o Retrieve \o Message("Done in")

FormatterInit ==
    /\ NoInvocation
    /\ fn = "execute"
    /\ args \in [command : {"run", "download"}, wait_flag : BOOLEAN, output : BOOLEAN,
                 error_message : BOOLEAN, failure : BOOLEAN]
    /\ args.command = "download" => (args.output /\ ~args.error_message /\ ~args.failure)
    /\ ret = <<>>
    /\ trace = <<>>

\* execute up to its next await point or return: the line is printed, the
\* awaited operation succeeds or its error is returned by `?` (a failure
\* of patch_allure_paths is a panic)
FormatterCall ==
    /\ fn = "execute"
    /\ ret = <<>>
    /\ IF Len(trace) < Len(Calls(args))
       THEN LET call == Calls(args)[Len(trace) + 1]
            IN  /\ trace' = Append(trace, call)
                /\ \E ok \in BOOLEAN :
                    ret' = IF call.kind # "await" \/ ok THEN <<>>
                           ELSE IF call.message = "patch_allure_paths" THEN <<"panic">>
                           ELSE <<"Err">>
       ELSE /\ ret' = IF args.command = "run" /\ args.wait_flag /\ args.failure
                      THEN <<"Ok(false)">>
                      ELSE IF args.command = "run" THEN <<"Ok(true)">> ELSE <<"Ok(())">>
            /\ UNCHANGED trace
    /\ UNCHANGED <<invocation, fn, args>>

FormatterSpec == FormatterInit /\ [][FormatterCall]_vars

(***************************************************************************)
(* The asynchronous HashingReader.  The reader is the part of the          *)
(* underlying stream not yet read, the hasher the bytes absorbed since it  *)
(* was created, and the digest of a hasher is identified with those        *)
(* bytes.  ret holds the reader, trace the messages sent on the channel.   *)
(***************************************************************************)
\* HashingReader::new
HashingReader(reader, size) == [reader |-> reader, hasher |-> <<>>, size |-> size]

\* Some(hasher.finalize().as_slice().to_vec())
finalize(hasher) == <<"Some", hasher>>

HashInit ==
    /\ NoInvocation
    /\ fn = "poll_read"
    /\ args \in [stream : StringsOver({"a", "b"}, MaxStream)]
    /\ ret = HashingReader(args.stream, Len(args.stream))
    /\ trace = <<>>

\* AsyncRead::poll_read with a buffer of capacity cap that the underlying
\* reader fills as far as it can, or that it answers with an error;
\* Poll::Pending changes nothing
PollRead ==
    /\ fn = "poll_read"
    /\ Len(trace) < MaxSent
    /\ \A i \in 1..Len(trace) : trace[i] # <<"None">>
    /\ \E ok \in BOOLEAN, cap \in 1..MaxStream :
        IF ~ok
        THEN /\ trace' = Append(trace, <<"None">>)
             /\ UNCHANGED ret
        ELSE LET len == IF cap < Len(ret.reader) THEN cap ELSE Len(ret.reader)
                 newly_filled == SubSeq(ret.reader, 1, len)
                 rest == SubSeq(ret.reader, len + 1, Len(ret.reader))
                 hasher == ret.hasher \o newly_filled
             IN  IF len = 0
                 THEN /\ ret' = [ret EXCEPT !.hasher = <<>>]
                      /\ trace' = Append(trace, finalize(ret.hasher))
                 ELSE IF ret.size - len = 0
                 THEN /\ ret' = [reader |-> rest, hasher |-> <<>>, size |-> 0]
                      /\ trace' = Append(trace, finalize(hasher))
                 ELSE /\ ret' = [reader |-> rest, hasher |-> hasher, size |-> ret.size - len]
                      /\ UNCHANGED trace
    /\ UNCHANGED <<invocation, fn, args>>

HashSpec == HashInit /\ [][PollRead]_vars

(***************************************************************************)
(* Properties.                                                             *)
(***************************************************************************)
\* elements of a sequence
Range(s) == { s[i] : i \in 1..Len(s) }

\* the ids of the file nodes reachable from dir, by descent through directories
RECURSIVE ReachableFiles(_, _)
ReachableFiles(t, dir) ==
    LET kids == Range(list_artifact(t, dir))
    IN  { a.id : a \in { k \in kids : k.is_file } }
        \cup UNION { ReachableFiles(t, a.id) : a \in { k \in kids : ~k.is_file } }

Ok == {"Ok(true)", "Ok(false)"}
Finished == pc \in {"returned", "exited"}
Seq3Err == <<"Err", "Err", "Err">>
FileIds == { i \in 1..tree.n : tree.is_file[i] }
Succeeded(a) == tries[a] # <<>> /\ tries[a][Len(tries[a])] = "Ok"

\* C1: in the run command with wait=true, an execute that returns Ok after
\* observing a completed status returns false exactly when the state is
\* "failure" and ignore_test_failures is false or unset, true for every other
\* state and flag; the process exits with 0 for true and 1 for false.
ExitOutcome ==
    (command = "run" /\ wait /\ Finished /\ result \in Ok) =>
        /\ stat.some /\ stat.completed
        /\ (result = "Ok(false)") <=>
               (stat.state = "failure" /\ ignore_test_failures \in {"Some(false)", "None"})
        /\ (pc = "exited") => (exit_code = IF result = "Ok(true)" THEN 0 ELSE 1)

\* a failed run, not ignored, took the process to exit code 1
ExitOutcomeWitness ==
    /\ command = "run" /\ wait /\ pc = "exited"
    /\ stat.state = "failure" /\ ignore_test_failures = "None"
    /\ result = "Ok(false)" /\ exit_code = 1

\* C2: an artifact whose download failed on all 3 attempts makes
\* download_artifacts return the error DownloadFailed; download_artifacts
\* never returns Ok with such an artifact dropped.
ExhaustedDownloadIsReported ==
    \A a \in 1..tree.n :
        (tries[a] = Seq3Err /\ pc # "download_artifacts") =>
            (result = "Err" /\ error = "DownloadFailed")

ConcurrencyBound ==
    /\ [](/\ Cardinality(dl_inflight) <= num_cpus
          /\ Cardinality(list_inflight) <= num_cpus)
    /\ [][/\ (dl_inflight' \ dl_inflight # {}) => Cardinality(dl_inflight) < num_cpus
          /\ (list_inflight' \ list_inflight # {}) => Cardinality(list_inflight) < num_cpus]_vars

\* the worker limit is reached while artifacts are still waiting
ConcurrencyBoundWitness ==
    /\ pc = "download_artifacts"
    /\ Cardinality(dl_inflight) = num_cpus
    /\ dl_queue # <<>>
    /\ Cardinality(FileIds) > num_cpus

\* fetch_artifact_list has returned Ok(artifacts)
FetchReturnedOk == round > 0 /\ list_errors = 0 /\ pc # "fetch_artifact_list"

\* C5: when every listing succeeds, fetch_artifact_list returns exactly the
\* file nodes reachable from the root: each once, and no directory.
CrawlComplete ==
    FetchReturnedOk =>
        /\ { a.id : a \in Range(artifacts) } = ReachableFiles(tree, ROOT)
        /\ Len(artifacts) = Cardinality(ReachableFiles(tree, ROOT))
        /\ \A a \in Range(artifacts) : a.is_file /\ tree.is_file[a.id]

\* a crawl that returned a file found below a directory
CrawlCompleteWitness ==
    /\ FetchReturnedOk
    /\ \E a \in Range(artifacts) : tree.parent[a.id] # ROOT

\* C6: a failed list_artifact call makes fetch_artifact_list fail: the caller
\* returns the error with no file list, no further round or listing call is
\* started, and no download is attempted.
CrawlFailFast ==
    /\ [](list_errors > 0 =>
            /\ Finished /\ result = "Err" /\ error = "ListFailed"
            /\ list_errors = 1
            /\ artifacts = <<>>
            /\ dl_queue = <<>> /\ dl_inflight = {} /\ written = {}
            /\ \A a \in 1..tree.n : tries[a] = <<>>)
    /\ [][list_errors > 0 => (round' = round /\ list_calls' = list_calls)]_vars

\* a listing failed in the second round, after the first had found a file
CrawlFailFastWitness ==
    /\ list_errors > 0
    /\ round = 2
    /\ \E i \in 1..tree.n : tree.parent[i] = ROOT /\ tree.is_file[i]
    /\ pc = "exited"

\* C7: in the run command's wait loop the first record with a completion
\* timestamp is the n-th response: exactly n get_run calls are made, one
\* 5-second sleep lies between consecutive calls and none follows the n-th,
\* and the reported event and the outcome come from the n-th record.
WaitLoopPolls ==
    command = "run" =>
        /\ (pc = "t_poll") => Len(sleep_log) = get_run_calls
        /\ (pc = "t_sleep") => Len(sleep_log) = get_run_calls - 1
        /\ \A i \in 1..Len(sleep_log) : sleep_log[i] = 5
        /\ (event.kind = "finished") =>
            LET n == Len(responses)
            IN  /\ n >= 1
                /\ responses[n].completed
                /\ \A i \in 1..(n - 1) : ~responses[i].completed
                /\ get_run_calls = n
                /\ Len(sleep_log) = n - 1
                /\ stat = responses[n]
                /\ event.state = responses[n].state
                /\ (result \in Ok) =>
                       ((result = "Ok(false)") <=>
                            (responses[n].state = "failure"
                             /\ ignore_test_failures \in {"Some(false)", "None"}))

\* the sequence [running, running, passed@t]: three calls, two sleeps
WaitLoopPollsWitness ==
    /\ command = "run" /\ pc = "exited"
    /\ Len(responses) = 3
    /\ ~responses[1].completed /\ ~responses[2].completed
    /\ responses[3] = Completed("passed")
    /\ event.state = "passed"
    /\ sleep_log = <<5, 5>>

\* a get_run call of the run command returned an error
PollFailed == command = "run" /\ get_run_calls > Len(responses)

\* C8: a failed get_run call in the run command's wait loop ends execute
\* with the error: no further get_run call, no finished event, no result
\* file, no listing and no download.
PollErrorPropagates ==
    /\ [](PollFailed =>
            /\ Finished /\ result = "Err" /\ error = "get_run"
            /\ event = NoEvent /\ file = NoEvent
            /\ round = 0 /\ \A i \in 0..tree.n : list_calls[i] = 0
            /\ written = {} /\ \A a \in 1..tree.n : tries[a] = <<>>)
    /\ [][PollFailed => get_run_calls' = get_run_calls]_vars

\* the second status query failed, after a first that showed the run running
PollErrorPropagatesWitness ==
    /\ PollFailed
    /\ get_run_calls = 2
    /\ pc = "exited" /\ exit_code = 1

\* C9: whenever the interactor of the run, download or devices command
\* returns an error, the process exits with a non-zero code.
ErrorExitsNonZero ==
    (pc = "exited" /\ result = "Err") => exit_code # 0

\* C10: in the download command with wait=true, once the remote service
\* reports a completion timestamp the wait loop is left and the interactor
\* goes on to fetch the artifact list.
DownloadWaitTerminates ==
    (command = "download" /\ pc \in {"d_loop", "d_sleep"} /\ remote.completed)
        ~> (pc \notin {"d_loop", "d_sleep"})

\* the ids of the directories reachable from dir
RECURSIVE ReachableDirs(_, _)
ReachableDirs(t, dir) ==
    LET sub == { a.id : a \in { k \in Range(list_artifact(t, dir)) : ~k.is_file } }
    IN  sub \cup UNION { ReachableDirs(t, d) : d \in sub }

NoListing == round = 0 /\ \A i \in 0..tree.n : list_calls[i] = 0
NoDownload == dl_inflight = {} /\ written = {} /\ \A a \in 1..tree.n : tries[a] = <<>>

\* C11: in the download command with wait=false, when the queried status
\* has no completion timestamp, no artifact is listed or downloaded.
DownloadNoWaitExits ==
    (command = "download" /\ ~wait /\ stat.some /\ ~stat.completed) =>
        (NoListing /\ NoDownload)

\* a download task is in the buffer, or a download_artifact call was made
DownloadStarted == dl_inflight # {} \/ \E a \in 1..tree.n : tries[a] # <<>>

\* C12: in the run and the download command, when the first download task
\* is started every list_artifact call of the crawl has completed (one for
\* the root and one for each directory below it) and the file list is the
\* full set of files; no listing call is made after a download has started.
CrawlBeforeDownload ==
    /\ [](DownloadStarted =>
            /\ pending = <<>> /\ list_inflight = {}
            /\ \A d \in {ROOT} \cup ReachableDirs(tree, ROOT) : list_calls[d] = 1
            /\ { a.id : a \in Range(artifacts) } = ReachableFiles(tree, ROOT))
    /\ [][/\ (dl_inflight' \ dl_inflight # {}) =>
                (pc = "download_artifacts" /\ list_inflight = {} /\ pending = <<>>)
          /\ DownloadStarted => list_calls' = list_calls]_vars

\* a download task runs after a crawl of two rounds
CrawlBeforeDownloadWitness ==
    /\ pc = "download_artifacts" /\ dl_inflight # {}
    /\ round = 2
    /\ \E a \in dl_inflight : tree.parent[a] # ROOT

\* C13: the run-creation request is sent only when every upload of the run
\* has been made and has succeeded; a failed upload ends create_run with
\* that error and no run-creation request is sent.
UploadsBeforeSubmit ==
    /\ [](/\ create_requests > 0 => upload_errors = 0
          /\ upload_errors > 0 =>
                /\ Finished /\ result = "Err" /\ error = "upload_to_s3"
                /\ create_requests = 0)
    /\ [][/\ create_requests' > create_requests => (to_upload = <<>> /\ upload_errors = 0)
          /\ (pc = "t_create_run" /\ pc' \in {"t_create_run", "t_submitted"}) =>
                uploaded' \o to_upload' = uploaded \o to_upload]_vars

\* the request is in flight after the uploads of a test application, an
\* application and both files of an application bundle
UploadsBeforeSubmitWitness ==
    /\ pc = "t_submitted" /\ create_requests = 1
    /\ uploaded = <<"test_app", "app", "bundle.app_path", "bundle.test_app_path">>

\* the run-creation request was sent and answered with a failure
SubmitRejected == create_requests > 0 /\ ~remote.some /\ pc # "t_submitted"

\* C14: an invocation of the run command sends at most one run-creation
\* request; a failed request is not sent again, execute returns its error
\* at once, and no status poll, listing or download follows.
SubmitOnce ==
    /\ [](/\ create_requests <= 1
          /\ SubmitRejected =>
                /\ Finished /\ result = "Err" /\ error = "create_run"
                /\ get_run_calls = 0 /\ NoListing /\ NoDownload
                /\ event = NoEvent)
    /\ [][SubmitRejected => create_requests' = create_requests]_vars

\* the only run-creation request failed and the process exited with 1
SubmitOnceWitness ==
    /\ SubmitRejected /\ create_requests = 1
    /\ pc = "exited" /\ exit_code = 1

\* the run command, without waiting, returned after a successful submission
StartedReturned == command = "run" /\ ~wait /\ remote.some /\ Finished

\* C15 as stated: with wait=false, after a successful submission execute
\* makes no get_run, list_artifact or download_artifact call, reports a
\* "started" event and returns success=true.
NoWaitReturnsTrue ==
    /\ (command = "run" /\ ~wait) => (get_run_calls = 0 /\ NoListing /\ NoDownload)
    /\ StartedReturned => (event = TestRunStarted /\ result = "Ok(true)")

\* C15, amended: with wait=false, after a successful submission execute
\* makes no get_run, list_artifact or download_artifact call and prints a
\* "started" event carrying only the run id; it returns success=true unless
\* a result file was requested and could not be created, serialized or
\* written, in which case it returns that error.  The status is polled only
\* if wait is true.
NoWaitStarts ==
    /\ (command = "run" /\ ~wait) =>
        /\ get_run_calls = 0 /\ NoListing /\ NoDownload
        /\ event \in {NoEvent, TestRunStarted}
        /\ file \in {NoEvent, TestRunStarted}
    /\ StartedReturned =>
        /\ event = TestRunStarted
        /\ event.state = ""
        /\ IF result = "Err"
           THEN result_file /\ error = "io" /\ file = NoEvent
           ELSE result = "Ok(true)" /\ (result_file => file = TestRunStarted)
    /\ (command = "run" /\ get_run_calls > 0) => wait

\* a run was started without waiting and the process exited with 0
NoWaitStartsWitness ==
    /\ StartedReturned /\ pc = "exited" /\ exit_code = 0
    /\ event = TestRunStarted /\ file = TestRunStarted

\* C16: with wait=true and an output directory, the finished event is
\* printed and written to the result file only after artifact listing and
\* download have completed.
ReportAfterRetrieval ==
    (command = "run" /\ wait /\ output
        /\ (event.kind = "finished" \/ file.kind = "finished")) =>
            (round > 0 /\ pc \notin {"fetch_artifact_list", "download_artifacts"})

\* the components of a path: the substrings between its separators
RECURSIVE Components(_)
Components(path) ==
    IF path = <<>> THEN <<<<>>>>
    ELSE LET rest == Components(Tail(path))
         IN  IF Head(path) = "/" THEN <<<<>>>> \o rest
             ELSE <<<<Head(path)>> \o Head(rest)>> \o Tail(rest)

\* path resolution as the file system does it: "" and "." stay, ".."
\* goes to the parent, and the parent of the root is the root
RECURSIVE Walk(_, _)
Walk(at, comps) ==
    IF comps = <<>> THEN at
    ELSE LET c == Head(comps)
         IN  CASE c \in {<<>>, <<".">>} -> Walk(at, Tail(comps))
               [] c = <<".", ".">> ->
                    Walk(IF at = <<>> THEN at ELSE SubSeq(at, 1, Len(at) - 1), Tail(comps))
               [] OTHER -> Walk(Append(at, c), Tail(comps))

\* the directory a path names, from the working directory /w
Resolve(path) ==
    Walk(IF is_absolute(path) THEN <<>> ELSE <<<<"w">>>>, Components(path))

\* the path lies in the output directory
Contained(path) ==
    LET dir == Resolve(OutputDir)
        at == Resolve(path)
    IN  Len(at) >= Len(dir) /\ SubSeq(at, 1, Len(dir)) = dir

\* the part of the id the claim joins onto the output directory
Remainder(run_id, id) ==
    IF starts_with(id, run_id \o <<"/">>)
    THEN SubSeq(id, Len(run_id) + 2, Len(id))
    ELSE IF id # <<>> /\ Head(id) = "/" THEN Tail(id) ELSE id

\* C17: the local path of an artifact is the output directory joined with
\* the id's remainder: the id without "<run id>/" if it starts with it,
\* otherwise the id without one leading "/" if it has one.  Joined as
\* PathBuf::push joins: a relative remainder follows the directory and a
\* separator, an absolute remainder is the path itself.
LocalPathMapping ==
    (fn = "download_artifact" /\ ret # <<>>) =>
        LET rest == Remainder(args.run_id, args.id)
        IN  ret[1] = IF is_absolute(rest) THEN rest ELSE OutputDir \o <<"/">> \o rest

\* run id R, id R/a/a gives o/a/a
LocalPathMappingWitness ==
    /\ fn = "download_artifact"
    /\ args = [run_id |-> <<"R">>, id |-> <<"R", "/", "a", "/", "a">>]
    /\ ret = << <<"o", "/", "a", "/", "a">> >>

\* the path ends in a file name, so that File::create can create it
NamesFile(path) ==
    LET comps == Components(path)
    IN  comps[Len(comps)] \notin {<<>>, <<".">>, <<".", ".">>}

\* C18: for every artifact id the file download_artifact creates lies in
\* the output directory.
LocalPathContained ==
    (fn = "download_artifact" /\ ret # <<>> /\ NamesFile(ret[1])) => Contained(ret[1])

\* C19: api_error_adapter returns a 2xx response unchanged as success,
\* answers 401 and 403 with InvalidAuthenticationToken and every other
\* non-2xx status with RequestFailedWithCode carrying the status code and
\* the body; no non-2xx response is a success.
AdapterMapping ==
    (fn = "api_error_adapter" /\ ret # <<>>) =>
        LET status_code == args.status_code
            r == ret[1]
        IN  /\ status_code \in 200..299 => r = Response(status_code, args.body)
            /\ status_code \in {401, 403} => r = InvalidAuthenticationToken
            /\ status_code \notin (200..299) \cup {401, 403} =>
                    r = RequestFailedWithCode(status_code, args.body)
            /\ status_code \notin 200..299 => ~r.ok

\* C20: after a request failed with InvalidAuthenticationToken the same
\* request is not issued again: a download_artifact attempt answered
\* 401/403 is the last attempt of its task.
AuthErrorNotRetried ==
    fn = "download_task" =>
        \A i \in 1..Len(trace) :
            trace[i] = InvalidAuthenticationToken => i = Len(trace)

\* the await points of execute that precede its result-file write
BeforeResultFile ==
    {"t_get_token", "t_create_run", "t_submitted", "t_poll", "t_sleep", "t_report", "t_started"}

\* C21: with a result file requested, a successful execute has written one
\* event to it: the started event iff wait is false, the finished event iff
\* wait is true and a completed status was observed.  The file is written
\* at most once, never without being requested, and not at all when token
\* retrieval, an upload, the submission or a status poll fails.
ResultFileEvent ==
    /\ ~result_file => file = NoEvent
    /\ file # NoEvent => pc \notin BeforeResultFile
    /\ file.kind = "started" => ~wait /\ file.state = ""
    /\ file.kind = "finished" =>
            wait /\ stat.some /\ stat.completed /\ file.state = stat.state
    /\ (command = "run" /\ result_file /\ Finished /\ result \in Ok) =>
            file.kind = IF wait THEN "finished" ELSE "started"
    /\ error \in {"get_token", "upload_to_s3", "EnvArgError", "create_run", "get_run"} =>
            file = NoEvent

\* a waited run failed its tests: the file holds the finished event
ResultFileEventWitness ==
    /\ command = "run" /\ result_file /\ wait
    /\ pc = "exited" /\ result = "Ok(false)"
    /\ file.kind = "finished" /\ file.state = "failure"

\* the nesting depth of a node: 0 for the root, one more than its parent's
RECURSIVE Depth(_, _)
Depth(t, i) == IF i = ROOT THEN 0 ELSE 1 + Depth(t, t.parent[i])

\* the directories of the tree; each is reachable from the root, as the
\* parent of a node is the root or a directory
Directories(t) == { i \in 1..t.n : ~t.is_file[i] }

\* the deepest directory of the tree
MaxDirDepth(t) ==
    LET ds == {0} \cup { Depth(t, i) : i \in Directories(t) }
    IN  CHOOSE d \in ds : \A e \in ds : e <= d

\* C27: the crawl of a finite tree ends after 1 + (deepest directory
\* nesting) rounds: round r lists exactly directories of depth r - 1, which
\* the round before discovered; a crawl that is not over always has a step
\* to take, and it returns with an empty frontier.
CrawlRounds ==
    /\ pc = "fetch_artifact_list" =>
        /\ round \in 1..(1 + MaxDirDepth(tree))
        /\ \A i \in 1..Len(list) :
            /\ list[i] = ROOT \/ ~tree.is_file[list[i]]
            /\ Depth(tree, list[i]) = round - 1
        /\ list_inflight \cup Range(pending) \subseteq Range(list)
        /\ \/ pending # <<>> /\ BufferHasRoom(list_inflight, num_cpus)
           \/ list_inflight # {}
           \/ pending = <<>> /\ list_inflight = {}
    /\ FetchReturnedOk => (round = 1 + MaxDirDepth(tree) /\ list = <<>>)

\* a directory inside a directory: the crawl returned after three rounds
CrawlRoundsWitness ==
    /\ FetchReturnedOk /\ round = 3 /\ MaxDirDepth(tree) = 2

\* C27, termination: a crawl that has begun ends.
CrawlTerminates == (pc = "fetch_artifact_list") ~> (pc # "fetch_artifact_list")

\* download_artifacts was entered and is over
DownloadOver ==
    /\ round > 0 /\ list_errors = 0 /\ error # "glob"
    /\ pc \notin {"fetch_artifact_list", "download_artifacts"}

\* the ids of the artifacts download_artifacts was called with
Passed ==
    { x.id : x \in Range(IF command = "download"
                         THEN filter_artifact_list(artifacts, glob) ELSE artifacts) }

OneListingPerDirectory ==
    /\ \A i \in 0..tree.n : list_calls[i] <= 1
    /\ \A i \in FileIds : list_calls[i] = 0
    /\ FetchReturnedOk =>
        /\ list_calls[ROOT] = 1
        /\ \A d \in Directories(tree) : list_calls[d] = 1
        /\ Cardinality({ i \in 0..tree.n : list_calls[i] > 0 })
                = 1 + Cardinality(Directories(tree))

\* a tree of one directory holding one file: two calls
OneListingPerDirectoryWitness ==
    /\ FetchReturnedOk /\ tree.n = 2
    /\ Directories(tree) = {1} /\ FileIds = {2} /\ tree.parent[2] = 1
    /\ list_calls = [i \in 0..2 |-> IF i = 2 THEN 0 ELSE 1]

\* C22: android::run reaches execute only if the application and the test
\* application are both given, or an application bundle, or a library
\* bundle; every other combination of the four arguments returns
\* UnsupportedRunConfiguration without execute, hence without a network call.
AndroidRunConfiguration ==
    (fn = "android::run" /\ ret # <<>>) =>
        LET supported == \/ args.application /\ args.test_application
                         \/ args.application_bundle > 0
                         \/ args.library_bundle > 0
        IN  /\ trace # <<>> => supported
            /\ ~supported => (ret = <<UnsupportedRunConfiguration>> /\ trace = <<>>)

\* the test application alone is rejected; so is the application alone
AndroidRunConfigurationWitness ==
    /\ fn = "android::run"
    /\ ~args.application /\ args.test_application
    /\ args.application_bundle = 0 /\ args.library_bundle = 0
    /\ args.device_ok /\ args.valid /\ ~args.mock_location
    /\ ret = <<UnsupportedRunConfiguration>> /\ trace = <<>>

\* the id without its leading "<run id>/", or the whole id
Relative(run_id, id) ==
    LET n == Len(run_id) + 1
    IN  IF Len(id) >= n /\ SubSeq(id, 1, n) = run_id \o <<"/">>
        THEN SubSeq(id, n + 1, Len(id)) ELSE id

\* C23: with a glob the list handed to download_artifacts holds exactly the
\* crawled artifacts whose id, without its leading "<run id>/" (the whole
\* id when it does not start with it), matches the glob, in their original
\* order; without a glob it is the crawled list.
GlobFilter ==
    (fn = "filter_artifact_list" /\ ret # <<>> /\ ret[1].ok) =>
        IF args.glob = <<>>
        THEN ret[1].list = args.artifacts
        ELSE ret[1].list =
                SelectSeq(args.artifacts,
                          LAMBDA x : is_match(args.glob[1], Relative(args.id, x)))

\* glob "a" keeps R/a and a, in that order; glob "/*" keeps /a but not R/a
GlobFilterWitness ==
    /\ fn = "filter_artifact_list" /\ ret # <<>>
    /\ args.glob = << <<"a">> >>
    /\ args.artifacts = << <<"R", "/", "a">>, <<"a">> >>
    /\ ret[1].list = args.artifacts

\* the position of the first '=' of an entry, 0 when it has none
FirstEq(e) ==
    IF \E i \in 1..Len(e) : e[i] = "="
    THEN CHOOSE i \in 1..Len(e) : e[i] = "=" /\ \A j \in 1..(i - 1) : e[j] # "="
    ELSE 0
KeyOf(e) == SubSeq(e, 1, FirstEq(e) - 1)
ValueOf(e) == SubSeq(e, FirstEq(e) + 1, Len(e))
\* an entry without '=' or with nothing after its first '='
Offending(e) == FirstEq(e) = 0 \/ ValueOf(e) = <<>>

\* C24: vec_to_hashmap maps None to None and an empty list to an empty
\* map.  When every entry has a '=' and a non-empty value after its first
\* '=', it returns the map of the entries split at their first '=' (a
\* later entry replaces an earlier one with the same key); otherwise it
\* returns the error of the first offending entry: InvalidKeyValue when the
\* entry has no '=', MissingValue when its value is empty.
EnvArgsMapping ==
    (fn = "vec_to_hashmap" /\ ret # <<>>) =>
        LET r == ret[1]
        IN  IF args = <<>> THEN r.ok /\ r.value = <<>>
            ELSE LET es == args[1]
                     bad == { i \in 1..Len(es) : Offending(es[i]) }
                 IN  IF bad = {}
                     THEN /\ r.ok
                          /\ r.value =
                                << { <<KeyOf(es[i]), ValueOf(es[i])>> :
                                        i \in { j \in 1..Len(es) :
                                                  \A k \in (j + 1)..Len(es) :
                                                      KeyOf(es[k]) # KeyOf(es[j]) } } >>
                          /\ (es = <<>> => r.value = <<{}>>)
                     ELSE LET i == CHOOSE j \in bad : \A k \in bad : j <= k
                          IN  /\ ~r.ok
                              /\ r.env_arg = es[i]
                              /\ r.kind = IF FirstEq(es[i]) = 0
                                          THEN "EnvArgError::InvalidKeyValue"
                                          ELSE "EnvArgError::MissingValue"

\* a=a= then a==: one entry, key a with the value of the later entry
EnvArgsMappingWitness ==
    /\ fn = "vec_to_hashmap" /\ ret # <<>>
    /\ args = << << <<"a", "=", "a", "=">>, <<"a", "=", "=">> >> >>
    /\ ret[1].ok /\ ret[1].value = << { << <<"a">>, <<"=">> >> } >>

\* the supported configurations that agree with every provided parameter
Agreeing ==
    { c \in Range(get_supported_configs) :
        /\ args.device # <<>> => c[1] = args.device[1]
        /\ args.xcode_version # <<>> => c[2] = args.xcode_version[1]
        /\ args.os_version # <<>> => c[3] = args.os_version[1] }

\* C25: infer_parameters succeeds iff exactly one supported configuration
\* agrees with every provided parameter, and then returns it: a member of
\* the supported list with every provided parameter unchanged.  It returns
\* an error when none agrees and when more than one does.
InferUnique ==
    (fn = "infer_parameters" /\ ret # <<>>) =>
        LET r == ret[1]
        IN  /\ r.ok <=> Cardinality(Agreeing) = 1
            /\ r.ok => /\ Agreeing = {r.value}
                       /\ r.value \in Range(get_supported_configs)
                       /\ args.device \in {<<>>, <<r.value[1]>>}
                       /\ args.xcode_version \in {<<>>, <<r.value[2]>>}
                       /\ args.os_version \in {<<>>, <<r.value[3]>>}
            /\ Agreeing = {} => (~r.ok /\ r.error = "Invalid parameters")
            /\ Cardinality(Agreeing) > 1 =>
                    (~r.ok /\ r.error = "Ambiguous parameters, please provide more specific input.")

\* iPhone-15 alone determines Xcode 15.4 and iOS 17.5
InferUniqueWitness ==
    /\ fn = "infer_parameters" /\ ret # <<>>
    /\ args = [device |-> <<"iPhone-15">>, xcode_version |-> <<>>, os_version |-> <<>>]
    /\ ret[1].ok /\ ret[1].value = <<"iPhone-15", "15.4", "17.5">>

\* the rule of a filter that is not a composition: a supported type and
\* exactly one of regex, values, file
LeafRule(f) ==
    /\ f.mtype \in {"fully-qualified-class-name", "fully-qualified-test-name",
                    "simple-class-name", "simple-test-name", "package", "method",
                    "annotation"}
    /\ Cardinality({ k \in {"regex", "values", "file"} :
                        CASE k = "regex" -> f.regex
                          [] k = "values" -> f.values
                          [] OTHER -> f.file # "None" }) = 1

\* the filters of the allowlist and of the blocklist
Listed ==
    (IF args.allowlist = <<>> THEN {} ELSE Range(args.allowlist[1]))
        \cup (IF args.blocklist = <<>> THEN {} ELSE Range(args.blocklist[1]))

\* C26: convert accepts a filter that is not a composition only if its type
\* is supported and exactly one of regex, values, file is given (so none,
\* several, an unsupported or an unknown type is an error); it accepts a
\* composition only if its op is present and non-empty and it has a
\* filters list whose members each satisfy that rule.
FilterRule ==
    (fn = "convert" /\ ret # <<>> /\ ret[1].ok) =>
        \A f \in Listed :
            IF f.mtype # "composition"
            THEN LeafRule(f)
            ELSE /\ f.op \notin {<<>>, <<"">>}
                 /\ f.filters # <<>>
                 /\ \A m \in Range(f.filters[1]) : LeafRule(m)

\* a composition of a regex filter and a values filter is accepted
FilterRuleWitness ==
    /\ fn = "convert" /\ ret # <<>> /\ ret[1].ok
    /\ \E f \in Listed :
        /\ f.mtype = "composition" /\ f.op = <<"union">>
        /\ f.filters = << << Filter("package", TRUE, FALSE, "None", <<>>, <<>>),
                             Filter("simple-test-name", FALSE, TRUE, "None", <<>>, <<>>) >> >>

\* C29: the download tasks of artifacts with distinct ids create distinct
\* local files: download_artifact's mapping from id to local path is
\* injective on the ids of a run (for paths that end in a file name, which
\* File::create can create).
DisjointLocalPaths ==
    fn = "download_artifacts" =>
        \A i, j \in 1..Len(trace) :
            (trace[i].task # trace[j].task /\ NamesFile(trace[i].path)) =>
                trace[i].path # trace[j].path

\* C31: when a completed run's artifact listing, download or path patching
\* fails, execute returns the error and the process exits with 1, whatever
\* the run's state and ignore_test_failures.
ArtifactErrorExitsOne ==
    (command = "run" /\ stat.some /\ stat.completed /\ pc = "exited"
        /\ (list_errors > 0 \/ error = "DownloadFailed" \/ result = "panic")) =>
            (result = "Err" /\ exit_code = EXIT_FAILURE)

\* C32: patch_allure_paths starts only after every download task has
\* ended: once download_artifacts has returned no task is queued, running
\* or writing, and each artifact's task has ended in success or after its
\* last attempt.
PatchAfterDownloads ==
    (pc = "patch_allure_paths" \/ DownloadOver) =>
        /\ dl_queue = <<>>
        /\ dl_inflight = {}
        /\ \A a \in Passed : Succeeded(a) \/ tries[a] = Seq3Err

\* patching is about to start after two tasks ran side by side
PatchAfterDownloadsWitness ==
    /\ pc = "patch_allure_paths" /\ num_cpus = 2
    /\ \E a, b \in Passed : a # b /\ written = {a, b} /\ tries[a] = <<"Err", "Ok">>

\* the source the claim prescribes: "../../" and the text from the marker
\* onward (the first logs/omni, or the first video/omni when there is no
\* logs/omni), or the source itself when it holds no marker
Relinked(s) ==
    LET logs == { i \in 1..Len(s) : s[i] = "logs/omni" }
        video == { i \in 1..Len(s) : s[i] = "video/omni" }
        from == IF logs # {} THEN logs ELSE video
    IN  IF from = {} THEN s
        ELSE LET i == CHOOSE k \in from : \A j \in from : k <= j
             IN  <<"../../">> \o [k \in 1..(Len(s) - i + 1) |-> s[k + i - 1]]

ExtensionRejectedEarly ==
    (fn = "run" /\ args.valid /\ args.result_file # <<>>) =>
        LET extension == args.result_file[1]
        IN  /\ (ret # <<>> /\ extension \notin {<<<<"json">>>>, <<<<"yaml">>>>, <<<<"yml">>>>, <<>>}) =>
                    (ret = <<"Err(InputError::InvalidFileExtension)">> /\ trace = <<>>)
            /\ (trace # <<>> /\ trace[Len(trace)] = "serialize_event") => ret = <<"Ok">>

\* create_run returned an EnvArgError
EnvArgRejected == error = "EnvArgError"

\* C35: when an entry of env_args or test_env_args is malformed, create_run
\* returns the EnvArgError and no run-creation request is sent, although
\* every upload of the invocation has been made by then.
EnvArgErrorAfterUploads ==
    /\ [](EnvArgRejected =>
            /\ Finished /\ result = "Err"
            /\ to_upload = <<>> /\ upload_errors = 0
            /\ create_requests = 0 /\ ~remote.some
            /\ get_run_calls = 0 /\ event = NoEvent)
    /\ [][(EnvArgRejected' /\ ~EnvArgRejected) =>
            /\ pc = "t_create_run" /\ to_upload = <<>>
            /\ uploaded' = uploaded
            /\ create_requests' = create_requests]_vars

\* the conversion failed after the uploads of a test application, an
\* application and both files of an application bundle, and the process
\* exited with 1
EnvArgErrorAfterUploadsWitness ==
    /\ EnvArgRejected /\ pc = "exited" /\ exit_code = EXIT_FAILURE
    /\ uploaded = <<"test_app", "app", "bundle.app_path", "bundle.test_app_path">>
    /\ create_requests = 0

\* the stage lines printed so far
IsStage(line) == line.kind = "stage"
StageLines == SelectSeq(trace, IsStage)

\* the stage count the invocation is announced with
StageCount ==
    IF args.command = "download" THEN 4
    ELSE IF args.wait_flag /\ args.output THEN 5
    ELSE IF args.wait_flag THEN 2 ELSE 1

\* C36: the k-th stage announced is labelled [k/N], so ordinals increase
\* by one from stage to stage and never exceed N, and when the invocation
\* succeeds the last ordinal announced is N (5 with wait and output, 2 with
\* wait only, 1 without wait, 4 for the download command).
StageOrdinals ==
    fn = "execute" =>
        /\ \A k \in 1..Len(StageLines) :
            /\ StageLines[k].index = k
            /\ StageLines[k].stage_count = StageCount
            /\ StageLines[k].index <= StageLines[k].stage_count
        /\ ret \in {<<"Ok(true)">>, <<"Ok(false)">>, <<"Ok(())">>} =>
                StageLines[Len(StageLines)].index = StageCount

\* C37: when a stream of exactly `size` bytes is read through the
\* HashingReader without error, one Some(digest) message is sent, the
\* digest of all its bytes in order, and polling again at end-of-file sends
\* no second one.
DigestSentOnce ==
    (fn = "poll_read" /\ \A i \in 1..Len(trace) : trace[i] # <<"None">>) =>
        /\ Len(trace) <= 1
        /\ trace # <<>> => trace[1] = finalize(args.stream)
        /\ (ret.reader = <<>> /\ args.stream # <<>>) => trace # <<>>

====
